---- MODULE Spec2Model ----
(***************************************************************************)
(* Pixlato (pixel_crafter_gui): a model of the palette / quantization core *)
(* (core/palette.py) and of the block downsampler (core/processor.py).     *)
(*                                                                         *)
(* The core is a library of synchronous functions over pixel buffers, so   *)
(* the state is one call frame: the arguments of the entry point that is   *)
(* being called (args), the position of the call (pc) and what it returned *)
(* (result).  Every entry point has a specification of its own whose Init  *)
(* draws the arguments from bounded sets and whose action runs the whole   *)
(* function.                                                               *)
(*                                                                         *)
(* An image is a record [w, h, px]: px is the row-major sequence of its    *)
(* w*h pixels.  A pixel of an "RGB" image is <<r, g, b>>, a pixel of an    *)
(* "RGBA" image is <<r, g, b, a>>, every channel in 0..255.                *)
(***************************************************************************)
EXTENDS Integers, Sequences, FiniteSets, TLC

VARIABLES
    pc,      \* "call": the entry point has its arguments; "done": it returned
    args,    \* the arguments of the call
    result   \* the value the call returned (<<>> until it returns)

vars == <<pc, args, result>>

(***************************************************************************)
(* Bounds of the model.                                                    *)
(***************************************************************************)
\* stability filter: images of at most this many pixels, at most this many passes
MaxFilterPixels == 8
MaxIterations == 2
\* images of a single row or a single column have at most this many pixels
MaxThinLength == 3
\* consolidator: colour lists of at most this length
MaxColors == 3
\* extraction: images of at most this many pixels
MaxImagePixels == 4
\* requested colour counts range over -MaxCount..MaxCount
MaxCount == 3
\* downsampling: arbitrary images of at most this many pixels, uniform images
\* of at most this many pixels a side, block sizes up to MaxPixelSize
MaxDownPixels == 4
MaxUniformSide == 4
MaxPixelSize == 4
\* quantization: images of at most this many pixels
MaxQuantPixels == 4
\* quantization under unusual configurations: images of at most this many pixels
MaxConfigPixels == 2

(***************************************************************************)
(* Sequences and small arithmetic.                                         *)
(***************************************************************************)
Min2(a, b) == IF a <= b THEN a ELSE b
Max2(a, b) == IF a >= b THEN a ELSE b
Abs(a) == IF a < 0 THEN 0 - a ELSE a
Range(s) == {s[i] : i \in 1..Len(s)}

\* Python's None
None == "None"

RECURSIVE SeqsOfLen(_, _)
\* all sequences of length n over S
SeqsOfLen(S, n) ==
    IF n = 0 THEN {<<>>}
    ELSE {Append(s, x) : s \in SeqsOfLen(S, n - 1), x \in S}

\* the w x h images whose pixels are drawn from P
ImagesOf(P, w, h) == {[w |-> w, h |-> h, px |-> s] : s \in SeqsOfLen(P, w * h)}

\* every image over P with at most n pixels (and at least one)
ImagesUpTo(P, n) ==
    UNION {ImagesOf(P, d[1], d[2]) : d \in {e \in (1..n) \X (1..n) :
        /\ e[1] * e[2] <= n
        /\ (e[1] = 1 \/ e[2] = 1) => e[1] * e[2] <= MaxThinLength}}

\* the pixel at column x, row y (both from 0), as numpy's arr[y, x]
At(img, x, y) == img.px[y * img.w + x + 1]

\* a conversion to RGBA by way of RGB: every pixel becomes opaque
ToRGBAOpaque(img) ==
    [img EXCEPT !.px = [i \in 1..Len(img.px) |->
        <<img.px[i][1], img.px[i][2], img.px[i][3], 255>>]]

\* Image.convert("RGBA"): an RGB pixel becomes opaque, an RGBA pixel is kept
ToRGBA(img) ==
    [img EXCEPT !.px = [i \in 1..Len(img.px) |->
        IF Len(img.px[i]) = 4 THEN img.px[i]
        ELSE <<img.px[i][1], img.px[i][2], img.px[i][3], 255>>]]

\* Image.convert("RGB"): the alpha channel is dropped, nothing is premultiplied
ToRGB(img) ==
    [img EXCEPT !.px = [i \in 1..Len(img.px) |->
        <<img.px[i][1], img.px[i][2], img.px[i][3]>>]]

(***************************************************************************)
(* rgb_to_lab (palette.py 5-43), in fixed point.  The source computes in   *)
(* float32; here a linear channel is an integer in units of 10^-5, the     *)
(* normalised X, Y, Z likewise, f(t) is in units of 10^-3 and L, a, b are  *)
(* in tenths (the precision f allows).  A squared LAB distance is          *)
(* therefore in hundredths.                                                *)
(***************************************************************************)
\* line 11-14: (v / 255) through the sRGB inverse gamma, v = 0..255, as
\* round(10^5 * linear); entry v + 1 is the value of channel v
SrgbLinear ==
    <<
       0, 30, 61, 91, 121, 152, 182, 212, 243, 273, 304, 335,
       368, 402, 439, 478, 518, 561, 605, 651, 700, 750, 802, 857,
       913, 972, 1033, 1096, 1161, 1229, 1298, 1370, 1444, 1521, 1600, 1681,
       1764, 1850, 1938, 2029, 2122, 2217, 2315, 2416, 2519, 2624, 2732, 2843,
       2956, 3071, 3190, 3310, 3434, 3560, 3689, 3820, 3955, 4092, 4231, 4374,
       4519, 4667, 4817, 4971, 5127, 5286, 5448, 5613, 5781, 5951, 6125, 6301,
       6480, 6663, 6848, 7036, 7227, 7421, 7619, 7819, 8022, 8228, 8438, 8650,
       8866, 9084, 9306, 9531, 9759, 9990, 10224, 10462, 10702, 10946, 11193, 11444,
       11697, 11954, 12214, 12477, 12744, 13014, 13287, 13563, 13843, 14126, 14413, 14703,
       14996, 15293, 15593, 15896, 16203, 16513, 16827, 17144, 17465, 17789, 18116, 18447,
       18782, 19120, 19462, 19807, 20156, 20508, 20864, 21223, 21586, 21953, 22323, 22697,
       23074, 23455, 23840, 24228, 24620, 25016, 25415, 25818, 26225, 26636, 27050, 27468,
       27889, 28315, 28744, 29177, 29614, 30054, 30499, 30947, 31399, 31855, 32314, 32778,
       33245, 33716, 34191, 34670, 35153, 35640, 36131, 36625, 37124, 37626, 38133, 38643,
       39157, 39676, 40198, 40724, 41254, 41789, 42327, 42869, 43415, 43966, 44520, 45079,
       45641, 46208, 46778, 47353, 47932, 48515, 49102, 49693, 50289, 50888, 51492, 52100,
       52712, 53328, 53948, 54572, 55201, 55834, 56471, 57112, 57758, 58408, 59062, 59720,
       60383, 61050, 61721, 62396, 63076, 63760, 64448, 65141, 65837, 66539, 67244, 67954,
       68669, 69387, 70110, 70838, 71569, 72306, 73046, 73791, 74540, 75294, 76052, 76815,
       77582, 78354, 79130, 79910, 80695, 81485, 82279, 83077, 83880, 84687, 85499, 86316,
       87137, 87962, 88792, 89627, 90466, 91310, 92158, 93011, 93869, 94731, 95597, 96469,
       97345, 98225, 99110, 100000
    >>

Linear(v) == SrgbLinear[v + 1]

RECURSIVE CubeRootSearch(_, _, _)
\* the largest r in lo..hi with r^3 <= n
CubeRootSearch(n, lo, hi) ==
    IF lo >= hi THEN lo
    ELSE LET mid == (lo + hi + 1) \div 2
         IN  IF mid * mid * mid <= n THEN CubeRootSearch(n, mid, hi)
             ELSE CubeRootSearch(n, lo, mid - 1)

\* line 30-35, f(t), t in units of 10^-5, the value in units of 10^-3:
\* the cube root above 0.008856, 7.787 t + 16/116 at and below it
LabF(t) ==
    IF t > 885 THEN CubeRootSearch(t * 10000, 0, 1000)
    ELSE (7787 * t + 13793103) \div 100000

\* line 18-28: linear RGB to XYZ (matrix to four decimals), each divided by
\* the D65 reference white (0.9505, 1.0000, 1.0888 to the same precision)
XyzOf(c) ==
    LET r == Linear(c[1])
        g == Linear(c[2])
        b == Linear(c[3])
    IN  << (r * 4125 + g * 3576 + b * 1804) \div 9505,
           (r * 2127 + g * 7152 + b * 721) \div 10000,
           (r * 193 + g * 1192 + b * 9503) \div 10888 >>

\* line 37-43: (L, a, b) of one colour, in tenths
rgb_to_lab(c) ==
    LET t == XyzOf(c)
        fx == LabF(t[1])
        fy == LabF(t[2])
        fz == LabF(t[3])
    IN  << (116 * fy - 16000) \div 100, 5 * (fx - fy), 2 * (fy - fz) >>

\* np.sum((p - q)**2) of two LAB triples, in hundredths
SqDist(p, q) ==
    (p[1] - q[1]) * (p[1] - q[1]) + (p[2] - q[2]) * (p[2] - q[2])
        + (p[3] - q[3]) * (p[3] - q[3])

LabSqDist(c, d) == SqDist(rgb_to_lab(c), rgb_to_lab(d))

\* a duplicate test that also rejects a colour at exactly the threshold
CloserOrEqual(c, d, threshold) ==
    LabSqDist(c, d) <= threshold * threshold

(***************************************************************************)
(* consolidate_palette (palette.py 137-162).  The threshold is given in    *)
(* tenths of a LAB unit.                                                   *)
(***************************************************************************)
\* line 153-154: np.sqrt(sum) < threshold.  A square root is never
\* negative, so a threshold <= 0 is never exceeded; above 0 the test is
\* the same on the squares.
CloserThan(c, d, threshold) ==
    /\ threshold > 0
    /\ LabSqDist(c, d) < threshold * threshold

RECURSIVE ConsolidateReversed(_, _, _)
\* the same scan, but a new colour is put in front of the kept ones
ConsolidateReversed(colors, threshold, kept) ==
    IF colors = <<>> THEN kept
    ELSE IF \E i \in 1..Len(kept) : CloserThan(Head(colors), kept[i], threshold)
         THEN ConsolidateReversed(Tail(colors), threshold, kept)
         ELSE ConsolidateReversed(Tail(colors), threshold, <<Head(colors)>> \o kept)

RECURSIVE Consolidate(_, _, _)
\* line 150-160: the scan over the colours in their order; kept is
\* unique_colors (unique_lab is its LAB image)
Consolidate(colors, threshold, kept) ==
    IF colors = <<>> THEN kept
    ELSE IF \E i \in 1..Len(kept) : CloserThan(Head(colors), kept[i], threshold)
         THEN Consolidate(Tail(colors), threshold, kept)
         ELSE Consolidate(Tail(colors), threshold, Append(kept, Head(colors)))

consolidate_reversed(colors, threshold) == ConsolidateReversed(colors, threshold, <<>>)

\* line 142: an empty list is returned as it is
consolidate_palette(colors, threshold) == Consolidate(colors, threshold, <<>>)

(***************************************************************************)
(* Specification of the consolidator.                                      *)
(***************************************************************************)
\* colours of which some are within 5 or 6 LAB units of each other
ConsolidateColors ==
    {<<10, 10, 10>>, <<20, 20, 20>>, <<28, 28, 28>>, <<200, 200, 200>>,
     <<255, 0, 0>>, <<250, 10, 10>>}

\* thresholds in tenths: none, the default 5.0, auto-optimal's 6.0, 30.0
ConsolidateThresholds == {0, 50, 60, 300}

ConsolidateArgs ==
    [colors : UNION {SeqsOfLen(ConsolidateColors, n) : n \in 0..MaxColors},
     threshold : ConsolidateThresholds]

InitConsolidate ==
    /\ pc = "call"
    /\ args \in ConsolidateArgs
    /\ result = <<>>

ConsolidatePalette ==
    /\ pc = "call"
    /\ result' = consolidate_palette(args.colors, args.threshold)
    /\ pc' = "done"
    /\ UNCHANGED args

\* the caller consolidates the returned palette again, same threshold
ConsolidateAgain ==
    /\ pc = "done"
    /\ args' = [args EXCEPT !.colors = result]
    /\ result' = <<>>
    /\ pc' = "call"

NextConsolidate == ConsolidatePalette \/ ConsolidateAgain

SpecConsolidate == InitConsolidate /\ [][NextConsolidate]_vars

\* C8: consolidating what consolidate_palette returned, with the same
\* threshold, returns the same colours in the same order.
C8_ConsolidateIdempotent ==
    pc = "done" => consolidate_palette(result, args.threshold) = result

\* C8 witness: a consolidation that dropped a colour and kept at least two.
C8_Witness ==
    /\ pc = "done"
    /\ Len(result) >= 2
    /\ Len(result) < Len(args.colors)

\* the kept colours of colors, in their order, for a set K of kept indices
KeptAt(colors, K) ==
    [k \in 1..Cardinality(K) |->
        colors[CHOOSE i \in K : Cardinality({j \in K : j <= i}) = k]]

\* K holds index i exactly when colour i is farther than Far allows from
\* no colour kept before it
GreedyKept(colors, K, Far(_, _)) ==
    \A i \in 1..Len(colors) :
        i \in K <=> \A j \in K : j < i => Far(colors[i], colors[j])

\* C19 as stated: scanning in the original order, a colour is kept exactly
\* when its LAB distance to every colour kept before it exceeds the
\* threshold (a distance equal to the threshold is not enough); the result
\* is that subsequence of the input and starts with the first input colour.
C19_KeptWhenFarther ==
    pc = "done" =>
        LET Far(c, d) == LabSqDist(c, d) > args.threshold * args.threshold
        IN  /\ \E K \in SUBSET (1..Len(args.colors)) :
                   /\ GreedyKept(args.colors, K, Far)
                   /\ result = KeptAt(args.colors, K)
            /\ args.colors # <<>> => result # <<>> /\ result[1] = args.colors[1]

\* C19 with the comparison of line 154: a colour is a duplicate only when
\* its distance to a kept colour is less than the threshold, so it is kept
\* exactly when every such distance is at least the threshold; the result is
\* that subsequence of the input and starts with the first input colour.
C19_KeptWhenNotCloser ==
    pc = "done" =>
        LET Far(c, d) == LabSqDist(c, d) >= args.threshold * args.threshold
        IN  /\ \E K \in SUBSET (1..Len(args.colors)) :
                   /\ GreedyKept(args.colors, K, Far)
                   /\ result = KeptAt(args.colors, K)
            /\ args.colors # <<>> => result # <<>> /\ result[1] = args.colors[1]

\* C19 witness: with threshold 0 a second copy of the first colour, at
\* distance 0 from it, was kept, and a third colour behind both
C19_Witness ==
    /\ pc = "done"
    /\ args.threshold = 0
    /\ Len(result) = 3
    /\ result[1] = result[2]
    /\ result[3] # result[1]

(***************************************************************************)
(* extract_aesthetic_palette (palette.py 199-277).  The image is at most   *)
(* 256 pixels wide and high, so line 207 takes the image itself.  The      *)
(* weights are given in tenths; a score is an integer in units of 10^-4.   *)
(***************************************************************************)
ChanMax(c) == Max2(c[1], Max2(c[2], c[3]))
ChanMin(c) == Min2(c[1], Min2(c[2], c[3]))

\* line 212-214: the pixels of the image as a list of RGB colours
PixelsOf(img) == ToRGB(img).px

\* line 220: sats = c_max - c_min of the channels scaled to 0..1, in 10^-3
SatScore(c) == (1000 * (ChanMax(c) - ChanMin(c))) \div 255

\* line 226: contrast = |c_max - 0.5| * 2, in 10^-3
ContrastScore(c) == (1000 * Abs(2 * ChanMax(c) - 255)) \div 255

\* line 233-243: the hue bucket (of 36) of a colour.  The three masked
\* assignments run in the order r, g, b, so the last channel that equals
\* the maximum decides.  h * 36 = 6 * base + 6 * num / (den + eps) taken
\* modulo 36; eps (line 230) makes the quotient a little smaller in size,
\* which moves it to the bucket below exactly when 6 * num / den is a
\* positive whole number.
HueBucket(c) ==
    LET mx == ChanMax(c)
        den == mx - ChanMin(c)
        base == IF mx = c[3] THEN 4 ELSE IF mx = c[2] THEN 2 ELSE 0
        num == IF mx = c[3] THEN c[1] - c[2]
               ELSE IF mx = c[2] THEN c[3] - c[1]
               ELSE c[2] - c[3]
        q == IF den = 0 THEN 0
             ELSE IF num > 0 /\ (6 * num) % den = 0 THEN (6 * num) \div den - 1
             ELSE (6 * num) \div den
    IN  (6 * base + q) % 36

\* line 242: h_hist[bucket], the number of pixels in the bucket
HueCount(pixels, k) == Cardinality({i \in 1..Len(pixels) : HueBucket(pixels[i]) = k})

\* line 243-244: rarity = 1 / (count + 1), divided by the largest rarity of
\* the image (that of the least filled bucket in use), in 10^-3
RarityScore(pixels, i) ==
    LET cnt(j) == HueCount(pixels, HueBucket(pixels[j]))
        least == CHOOSE m \in {cnt(j) : j \in 1..Len(pixels)} :
                    \A j \in 1..Len(pixels) : m <= cnt(j)
    IN  (1000 * (least + 1)) \div (cnt(i) + 1)

\* line 247: the importance score of every pixel
Scores(pixels, w_sat, w_con, w_rar) ==
    [i \in 1..Len(pixels) |->
        SatScore(pixels[i]) * w_sat + ContrastScore(pixels[i]) * w_con
            + RarityScore(pixels, i) * w_rar]

\* np.argmax: the first index that holds the largest value
ArgMax(f) ==
    CHOOSE i \in DOMAIN f :
        /\ \A j \in DOMAIN f : f[j] <= f[i]
        /\ \A j \in DOMAIN f : j < i => f[j] < f[i]

\* np.argmin: the first index that holds the smallest value
ArgMin(f) ==
    CHOOSE i \in DOMAIN f :
        /\ \A j \in DOMAIN f : f[j] >= f[i]
        /\ \A j \in DOMAIN f : j < i => f[j] > f[i]

\* min_delta_e_sq = 15.0 ** 2 (line 258), in hundredths
MinDeltaESq == 22500

\* line 269-274: the score times clip(sq_dist / min_delta_e_sq, 0, 1).  A
\* float product of two positive numbers stays positive, so a positive
\* score times a positive factor is at least one unit here.
Suppressed(score, sq) ==
    IF sq >= MinDeltaESq THEN score
    ELSE IF score = 0 \/ sq = 0 THEN 0
    ELSE Max2(1, (score * sq) \div MinDeltaESq)

RECURSIVE AestheticSelect(_, _, _, _)
\* line 260-274: up to n selections; selected is selected_indices
AestheticSelect(pixels, scores, n, selected) ==
    IF n <= 0 THEN selected
    ELSE LET best == ArgMax(scores)
         IN  IF scores[best] <= 0 THEN selected
             ELSE AestheticSelect(
                    pixels,
                    [i \in DOMAIN scores |->
                        Suppressed(scores[i], LabSqDist(pixels[i], pixels[best]))],
                    n - 1,
                    Append(selected, best))

\* line 276: int(p * 255) of the float32 p = v / 255 is v again for every
\* v in 0..255, so the colours returned are pixels of the image
extract_aesthetic_palette(img, color_count, w_sat, w_con, w_rar) ==
    LET pixels == PixelsOf(img)
        sel == AestheticSelect(pixels, Scores(pixels, w_sat, w_con, w_rar),
                               color_count, <<>>)
    IN  [k \in 1..Len(sel) |-> pixels[sel[k]]]

(***************************************************************************)
(* extract_geometric_palette (palette.py 279-357).                         *)
(***************************************************************************)
\* line 295-311: the nine extreme pixels, in the order they are appended
Extremes(pixels) ==
    LET chan(k) == [i \in 1..Len(pixels) |-> pixels[i][k]]
        sums == [i \in 1..Len(pixels) |-> pixels[i][1] + pixels[i][2] + pixels[i][3]]
        sats == [i \in 1..Len(pixels) |-> ChanMax(pixels[i]) - ChanMin(pixels[i])]
    IN  << pixels[ArgMin(chan(1))], pixels[ArgMax(chan(1))],
           pixels[ArgMin(chan(2))], pixels[ArgMax(chan(2))],
           pixels[ArgMin(chan(3))], pixels[ArgMax(chan(3))],
           pixels[ArgMin(sums)], pixels[ArgMax(sums)],
           pixels[ArgMax(sats)] >>

RECURSIVE Unique(_, _)
\* line 314-317: the first occurrence of every element, in order
Unique(s, kept) ==
    IF s = <<>> THEN kept
    ELSE IF \E i \in 1..Len(kept) : kept[i] = Head(s)
         THEN Unique(Tail(s), kept)
         ELSE Unique(Tail(s), Append(kept, Head(s)))

\* Python's s[:k]: the first k elements, and for a negative k all but the
\* last -k
SliceTo(s, k) ==
    LET stop == IF k >= 0 THEN Min2(k, Len(s)) ELSE Max2(0, Len(s) + k)
    IN  SubSeq(s, 1, stop)

\* line 325: the bin (of 16) of a channel value under np.histogramdd with
\* range (0, 255): bins of width 255/16, the last one closed at 255
VoxelBin(v) == Min2(15, (16 * v) \div 255)

VoxelOf(c) == <<VoxelBin(c[1]), VoxelBin(c[2]), VoxelBin(c[3])>>

\* line 333-334: the colour a voxel stands for (bin_width = 256 / 16)
VoxelRgb(vx) == <<vx[1] * 16 + 8, vx[2] * 16 + 8, vx[3] * 16 + 8>>

\* line 330: the number of pixels in a voxel
Density(pixels, vx) == Cardinality({i \in 1..Len(pixels) : VoxelOf(pixels[i]) = vx})

\* np.argwhere order of two voxels: by their (r, g, b) bins
VoxelBefore(u, v) ==
    \/ u[1] < v[1]
    \/ u[1] = v[1] /\ u[2] < v[2]
    \/ u[1] = v[1] /\ u[2] = v[2] /\ u[3] < v[3]

RECURSIVE SortedVoxels(_, _)
\* line 328-338: the non-empty voxels by falling density; voxels of equal
\* density stay in argwhere order (np.argsort sorts the few voxels of a
\* small image by insertion, which keeps that order)
SortedVoxels(pixels, left) ==
    IF left = {} THEN <<>>
    ELSE LET first == CHOOSE u \in left : \A v \in left \ {u} :
                        \/ Density(pixels, u) > Density(pixels, v)
                        \/ Density(pixels, u) = Density(pixels, v) /\ VoxelBefore(u, v)
         IN  <<first>> \o SortedVoxels(pixels, left \ {first})

\* min_dist_sq = 20.0 ** 2 (line 344), in hundredths
MinDistSq == 40000

RECURSIVE GeometricFillUnbounded(_, _, _)
\* the same fill without the test of the palette's length
GeometricFillUnbounded(cands, palette, color_count) ==
    IF cands = <<>> THEN palette
    ELSE IF \A i \in 1..Len(palette) : LabSqDist(palette[i], Head(cands)) > MinDistSq
         THEN GeometricFillUnbounded(Tail(cands), Append(palette, Head(cands)), color_count)
         ELSE GeometricFillUnbounded(Tail(cands), palette, color_count)

RECURSIVE GeometricFill(_, _, _)
\* line 346-355: the candidates in order, until the palette is full
GeometricFill(cands, palette, color_count) ==
    IF cands = <<>> \/ Len(palette) >= color_count THEN palette
    ELSE IF \A i \in 1..Len(palette) : LabSqDist(palette[i], Head(cands)) > MinDistSq
         THEN GeometricFill(Tail(cands), Append(palette, Head(cands)), color_count)
         ELSE GeometricFill(Tail(cands), palette, color_count)

extract_geometric_palette(img, color_count) ==
    LET pixels == PixelsOf(img)
        anchors == SliceTo(Unique(Extremes(pixels), <<>>), color_count \div 2)
        voxels == SortedVoxels(pixels, {VoxelOf(pixels[i]) : i \in 1..Len(pixels)})
        cands == [k \in 1..Len(voxels) |-> VoxelRgb(voxels[k])]
    IN  GeometricFill(cands, anchors, color_count)

(***************************************************************************)
(* The palette of "Limited" mode (apply_palette_unified, palette.py        *)
(* 392-405).  custom_colors is an integer or None.                         *)
(***************************************************************************)
\* the consolidation threshold of auto-optimal mode, 6.0 (line 399), in tenths
AutoThreshold == 60

\* color_count of the auto-optimal extraction (line 398)
AutoCount == 64

\* the default count when custom_colors is not an int (line 393)
DefaultCount == 16

LimitedColors(rgb_img, custom_colors, extract_policy, w_sat, w_con, w_rar, auto_optimal) ==
    LET count == IF custom_colors \in Int THEN custom_colors ELSE DefaultCount
    IN  IF auto_optimal
        THEN consolidate_palette(extract_geometric_palette(rgb_img, AutoCount), AutoThreshold)
        ELSE IF extract_policy = "Aesthetic"
        THEN extract_aesthetic_palette(rgb_img, count, w_sat, w_con, w_rar)
        ELSE extract_geometric_palette(rgb_img, count)

(***************************************************************************)
(* Specification of palette extraction: the two extractors called          *)
(* directly (extract_palette(image, count, policy, weights)) and the       *)
(* palette that Limited mode builds.                                       *)
(***************************************************************************)
\* dark grays close to each other, a light gray, two saturated colours
ExtractColors ==
    {<<10, 10, 10>>, <<20, 20, 20>>, <<200, 200, 200>>, <<255, 0, 0>>}

\* (w_sat, w_con, w_rar) in tenths: the defaults, saturation only, rarity
\* only, all zero
ExtractWeights == {<<4, 3, 3>>, <<10, 0, 0>>, <<0, 0, 10>>, <<0, 0, 0>>}

ExtractArgs ==
    [fn : {"extract_aesthetic_palette", "extract_geometric_palette", "Limited"},
     img : ImagesUpTo(ExtractColors, MaxImagePixels),
     color_count : (0 - MaxCount)..MaxCount,
     weights : ExtractWeights,
     extract_policy : {"Standard", "Aesthetic"},
     auto_optimal : BOOLEAN]

InitExtract ==
    /\ pc = "call"
    /\ args \in ExtractArgs
    \* the direct calls take no policy and no auto-optimal flag
    /\ args.fn # "Limited" => args.extract_policy = "Standard" /\ ~args.auto_optimal
    \* the weights are read by the aesthetic extractor alone
    /\ (\/ args.fn = "extract_geometric_palette"
        \/ args.fn = "Limited" /\ (args.extract_policy = "Standard" \/ args.auto_optimal))
            => args.weights = <<4, 3, 3>>
    /\ result = <<>>

ExtractAesthetic ==
    /\ pc = "call"
    /\ args.fn = "extract_aesthetic_palette"
    /\ result' = extract_aesthetic_palette(args.img, args.color_count,
                    args.weights[1], args.weights[2], args.weights[3])
    /\ pc' = "done"
    /\ UNCHANGED args

ExtractGeometric ==
    /\ pc = "call"
    /\ args.fn = "extract_geometric_palette"
    /\ result' = extract_geometric_palette(args.img, args.color_count)
    /\ pc' = "done"
    /\ UNCHANGED args

LimitedTarget ==
    /\ pc = "call"
    /\ args.fn = "Limited"
    /\ result' = LimitedColors(args.img, args.color_count, args.extract_policy,
                    args.weights[1], args.weights[2], args.weights[3],
                    args.auto_optimal)
    /\ pc' = "done"
    /\ UNCHANGED args

NextExtract == ExtractAesthetic \/ ExtractGeometric \/ LimitedTarget

SpecExtract == InitExtract /\ [][NextExtract]_vars

\* an (R, G, B) triple with every channel in 0..255
ValidColor(c) == Len(c) = 3 /\ \A k \in 1..3 : c[k] \in 0..255

\* C3 (as stated): for a requested count N >= 1 the palette returned by
\* either extractor, and the one Limited mode builds (auto-optimal
\* included), has at most N entries, all of them valid colours.
C3_AtMostRequested ==
    (pc = "done" /\ args.color_count >= 1) =>
        /\ Len(result) <= args.color_count
        /\ \A k \in 1..Len(result) : ValidColor(result[k])

\* C3 (amended): for a requested count N >= 1 the palette returned by
\* either extractor, and the one Limited mode builds with auto-optimal off,
\* has at most N entries; with auto-optimal on the Limited palette is
\* bounded by the 64 colours asked of the geometric extractor, not by N;
\* every entry is a valid colour.
C3_AtMostRequestedUnlessAuto ==
    (pc = "done" /\ args.color_count >= 1) =>
        /\ Len(result) <= (IF args.fn = "Limited" /\ args.auto_optimal
                            THEN AutoCount ELSE args.color_count)
        /\ \A k \in 1..Len(result) : ValidColor(result[k])

\* C3 witness: the geometric extractor was asked for 2 colours of an image
\* that has at least 3 and returned 2.
C3_Witness ==
    /\ pc = "done"
    /\ args.fn = "extract_geometric_palette"
    /\ args.color_count = 2
    /\ Cardinality(Range(args.img.px)) >= 3
    /\ Len(result) = 2

\* C4: a request for one colour returns exactly one colour, under the
\* geometric extractor and under the aesthetic one with any weights >= 0.
C4_OneColour ==
    (pc = "done" /\ args.fn # "Limited" /\ args.color_count = 1) =>
        Len(result) = 1

\* C5: a requested count of zero or less is treated as a count of 1: the
\* palette returned (by either extractor, and built by Limited mode) has
\* exactly one colour.
C5_ClampedToOne ==
    (pc = "done" /\ args.color_count <= 0) => Len(result) = 1

\* C22: no two colours selected by the aesthetic extractor lie within LAB
\* distance 15 of each other (a selection suppresses to zero every pixel
\* inside that radius), so no colour is selected twice, and at most N are
\* selected.
C22_SelectedFarApart ==
    (pc = "done" /\ args.fn = "extract_aesthetic_palette" /\ args.color_count >= 1) =>
        /\ \A i, j \in 1..Len(result) :
               i < j => LabSqDist(result[i], result[j]) >= MinDeltaESq
        /\ Len(result) <= args.color_count

\* the sum of the channels of a colour
ChannelTotal(c) == c[1] + c[2] + c[3]

\* C21: for a requested count of 2 or more the palette of the geometric
\* extractor holds a pixel colour of the least channel sum of the analysed
\* image and a pixel colour of the greatest channel sum.
C21_DarkestAndBrightestKept ==
    (pc = "done" /\ args.fn = "extract_geometric_palette" /\ args.color_count >= 2) =>
        LET pixels == PixelsOf(args.img)
            kept == {c \in Range(result) : c \in Range(pixels)}
        IN  /\ \E c \in kept : \A i \in 1..Len(pixels) : ChannelTotal(c) <= ChannelTotal(pixels[i])
            /\ \E c \in kept : \A i \in 1..Len(pixels) : ChannelTotal(c) >= ChannelTotal(pixels[i])

(***************************************************************************)
(* Image.resize(size, resample=Image.BOX) of an RGBA image (Pillow), as    *)
(* called at processor.py 125 and 144: the image is alpha-premultiplied,   *)
(* every output pixel is the mean of the source pixels its box covers, and *)
(* the result is divided by alpha again.  A size with a zero side raises.  *)
(***************************************************************************)
NoImage == [w |-> 0, h |-> 0, px |-> <<>>]

\* RGBA -> RGBa: round(c * a / 255)
Premultiply(p) ==
    LET m(c) == LET t == c * p[4] + 128 IN (t + t \div 256) \div 256
    IN  <<m(p[1]), m(p[2]), m(p[3]), p[4]>>

\* RGBa -> RGBA: 255 * c / a clipped, the colour kept when a is 0 or 255
Unpremultiply(p) ==
    LET d(c) == IF p[4] = 0 \/ p[4] = 255 THEN c ELSE Min2(255, (255 * c) \div p[4])
    IN  <<d(p[1]), d(p[2]), d(p[3]), p[4]>>

RECURSIVE SumOver(_, _)
\* the sum of f over the finite set S
SumOver(f, S) ==
    IF S = {} THEN 0
    ELSE LET x == CHOOSE y \in S : TRUE IN f[x] + SumOver(f, S \ {x})

\* the source columns (or rows) that output cell k of n covers, of len
BoxSpan(k, n, len) ==
    LET lo == (k * len) \div n
        hi == Max2(lo + 1, ((k + 1) * len + n - 1) \div n)
    IN  lo..(hi - 1)

BoxResize(img, out_w, out_h) ==
    LET src == ToRGBA(img)
        cell(x, y) ==
            LET xs == BoxSpan(x, out_w, src.w)
                ys == BoxSpan(y, out_h, src.h)
                pts == xs \X ys
                n == Cardinality(pts)
                mean(k) ==
                    (2 * SumOver([q \in pts |-> Premultiply(At(src, q[1], q[2]))[k]], pts) + n)
                        \div (2 * n)
            IN  Unpremultiply(<<mean(1), mean(2), mean(3), mean(4)>>)
    IN  IF out_w <= 0 \/ out_h <= 0
        THEN [raised |-> "ValueError", img |-> NoImage, branches |-> {"resize"}]
        ELSE [raised |-> None,
              img |-> [w |-> out_w, h |-> out_h,
                       px |-> [i \in 1..(out_w * out_h) |->
                                cell((i - 1) % out_w, (i - 1) \div out_w)]],
              branches |-> {"resize"}]

(***************************************************************************)
(* downsample_kmeans_adaptive (processor.py 135-220).  Sums are kept       *)
(* exact: a cluster centre is the pair of the channel sums of its pixels   *)
(* and their number, and comparisons of means are cross-multiplied.        *)
(***************************************************************************)
\* line 157-161: the pixels of block (bx, by), rows first; N = ps * ps
BlockPixels(img, ps, bx, by) ==
    [n \in 1..(ps * ps) |->
        At(img, bx * ps + ((n - 1) % ps), by * ps + ((n - 1) \div ps))]

ChannelSum(pixels, k, S) == SumOver([i \in 1..Len(pixels) |-> pixels[i][k]], S)

\* 40.0 * 3 (line 175)
VarThreshold == 120

\* every block of more than one pixel taken as a high-variance block
HighVarianceAlways(pixels) == Len(pixels) > 1

\* line 168-176: the sum over R, G, B of the unbiased variance exceeds the
\* threshold.  With N = 1 the variance is NaN and the comparison is false.
HighVariance(pixels) ==
    LET n == Len(pixels)
        all == 1..n
        dev(k) ==
            n * SumOver([i \in all |-> pixels[i][k] * pixels[i][k]], all)
                - ChannelSum(pixels, k, all) * ChannelSum(pixels, k, all)
    IN  /\ n > 1
        /\ dev(1) + dev(2) + dev(3) > VarThreshold * n * (n - 1)

\* line 183: the luminance of a pixel, times 1000
Luminance(p) == 299 * p[1] + 587 * p[2] + 114 * p[3]

\* a centre: the sums s of the channels of the pixels it owns, their count n
CenterOf(pixels, S) ==
    [s |-> <<ChannelSum(pixels, 1, S), ChannelSum(pixels, 2, S), ChannelSum(pixels, 3, S)>>,
     n |-> Max2(1, Cardinality(S))]

\* the squared distance of pixel p to centre c, times c.n^2
DistToCenter(p, c) ==
    LET d(k) == p[k] * c.n - c.s[k] IN d(1) * d(1) + d(2) * d(2) + d(3) * d(3)

\* line 196-197: the pixel is labelled 1 when centre 1 is strictly nearer
\* (argmin takes the first of two equal distances)
Label(p, c0, c1) ==
    IF DistToCenter(p, c1) * c0.n * c0.n < DistToCenter(p, c0) * c1.n * c1.n
    THEN 1 ELSE 0

RECURSIVE KMeans(_, _, _, _)
\* line 193-205: assignment and update, `left` more times.  An empty
\* cluster has sum 0 over clamp(0, min=1), the centre (0, 0, 0).
KMeans(pixels, c0, c1, left) ==
    IF left = 0 THEN <<c0, c1>>
    ELSE LET own(l) == {i \in 1..Len(pixels) : Label(pixels[i], c0, c1) = l}
         IN  KMeans(pixels, CenterOf(pixels, own(0)), CenterOf(pixels, own(1)), left - 1)

\* the number of assignment/update rounds (line 193)
KMeansRounds == 4

\* line 207-212: the centre farther from the block mean; argmax takes
\* centre 0 when both are as far
ContrastCenter(pixels, cs) ==
    LET m == CenterOf(pixels, 1..Len(pixels))
        far(c) == LET d(k) == c.s[k] * m.n - m.s[k] * c.n
                  IN  d(1) * d(1) + d(2) * d(2) + d(3) * d(3)
    IN  IF far(cs[2]) * cs[1].n * cs[1].n > far(cs[1]) * cs[2].n * cs[2].n
        THEN cs[2] ELSE cs[1]

\* line 171-219: the output pixel of one block; .byte() truncates
BlockColor(pixels) ==
    LET all == 1..Len(pixels)
        c == IF HighVariance(pixels)
             THEN ContrastCenter(pixels,
                    KMeans(pixels,
                           CenterOf(pixels, {ArgMin([i \in all |-> Luminance(pixels[i])])}),
                           CenterOf(pixels, {ArgMax([i \in all |-> Luminance(pixels[i])])}),
                           KMeansRounds))
             ELSE CenterOf(pixels, all)
        alpha == SumOver([i \in all |-> pixels[i][4]], all) \div Len(pixels)
    IN  <<c.s[1] \div c.n, c.s[2] \div c.n, c.s[3] \div c.n, alpha>>

\* the branch a block takes
BlockBranch(pixels) == IF HighVariance(pixels) THEN "kmeans" ELSE "mean"

\* torch_installed: whether `import torch` succeeds (line 140-144)
downsample_kmeans_adaptive(img, pixel_size, out_w, out_h, torch_installed) ==
    LET src == ToRGBA(img)
        \* line 154-155: the slice keeps what there is of the target size
        kept_h == Min2(src.h, out_h * pixel_size)
        kept_w == Min2(src.w, out_w * pixel_size)
        block(i) == BlockPixels(src, pixel_size, (i - 1) % out_w, (i - 1) \div out_w)
    IN  IF ~torch_installed
        THEN [BoxResize(img, out_w, out_h) EXCEPT !.branches = {"fallback"}]
        \* line 159: reshape needs out_h * ps * out_w * ps pixels
        ELSE IF kept_h * kept_w # out_h * pixel_size * out_w * pixel_size
        THEN [raised |-> "RuntimeError", img |-> NoImage, branches |-> {}]
        ELSE [raised |-> None,
              img |-> [w |-> out_w, h |-> out_h,
                       px |-> [i \in 1..(out_w * out_h) |-> BlockColor(block(i))]],
              branches |-> {BlockBranch(block(i)) : i \in 1..(out_w * out_h)}]

(***************************************************************************)
(* The downsampling step of pixelate_image (processor.py 109-125), for     *)
(* target_width = None as every caller leaves it, applied to the image     *)
(* that the steps before it hand over.                                     *)
(***************************************************************************)
DownsampleStep(img, pixel_size, downsample_method, torch_installed) ==
    LET small_width == Max2(1, img.w \div pixel_size)
        small_height == Max2(1, img.h \div pixel_size)
    IN  IF downsample_method = "K-Means"
        THEN downsample_kmeans_adaptive(img, pixel_size, small_width, small_height,
                                        torch_installed)
        ELSE BoxResize(img, small_width, small_height)

(***************************************************************************)
(* Specification of downsampling: pixelate_image's step and the direct     *)
(* call downsample(image, block_size, out_w, out_h).                       *)
(***************************************************************************)
\* three colours far apart, one of them half transparent
DownPixels == {<<0, 0, 0, 255>>, <<120, 60, 0, 255>>, <<255, 255, 255, 128>>}

\* the colours of the uniform images
UniformPixels == {<<255, 0, 0, 255>>, <<200, 100, 50, 128>>, <<7, 7, 7, 0>>}

UniformImage(w, h, p) == [w |-> w, h |-> h, px |-> [i \in 1..(w * h) |-> p]]

\* two colours far apart whose luminance is the same number, in exact
\* arithmetic (142.264) and as line 183 computes it in float32
EqualLuminancePixels == {<<100, 172, 100, 255>>, <<220, 100, 156, 255>>}

DownImages ==
    ImagesUpTo(DownPixels, MaxDownPixels)
        \cup {UniformImage(w, h, p) : w \in 1..MaxUniformSide, h \in 1..MaxUniformSide,
                                      p \in UniformPixels}
        \cup ImagesOf(EqualLuminancePixels, 2, 2)

DownArgs ==
    [fn : {"pixelate_image", "downsample_kmeans_adaptive"},
     img : DownImages,
     pixel_size : 1..MaxPixelSize,
     out_w : 1..MaxUniformSide,
     out_h : 1..MaxUniformSide,
     downsample_method : {"Standard", "K-Means"},
     torch_installed : BOOLEAN]

InitDown ==
    /\ pc = "call"
    /\ args \in DownArgs
    \* pixelate_image computes the output size itself
    /\ args.fn = "pixelate_image" => args.out_w = 1 /\ args.out_h = 1
    \* the direct call is the K-Means method, on a grid the image covers
    /\ args.fn = "downsample_kmeans_adaptive" =>
        /\ args.downsample_method = "K-Means"
        /\ args.out_w * args.pixel_size <= args.img.w
        /\ args.out_h * args.pixel_size <= args.img.h
    /\ result = <<>>

PixelateImage ==
    /\ pc = "call"
    /\ args.fn = "pixelate_image"
    /\ result' = DownsampleStep(args.img, args.pixel_size, args.downsample_method,
                                args.torch_installed)
    /\ pc' = "done"
    /\ UNCHANGED args

DownsampleKMeans ==
    /\ pc = "call"
    /\ args.fn = "downsample_kmeans_adaptive"
    /\ result' = downsample_kmeans_adaptive(args.img, args.pixel_size, args.out_w,
                                            args.out_h, args.torch_installed)
    /\ pc' = "done"
    /\ UNCHANGED args

NextDown == PixelateImage \/ DownsampleKMeans

SpecDown == InitDown /\ [][NextDown]_vars

\* C6: when pixel_size is larger than the image's width or height, the
\* downsampling step of pixelate_image returns an image of at least 1x1
\* pixels and raises nothing, with the Standard and with the K-Means method.
C6_BlockLargerThanImage ==
    (/\ pc = "done"
     /\ args.fn = "pixelate_image"
     /\ (args.pixel_size > args.img.w \/ args.pixel_size > args.img.h))
    => /\ result.raised = None
       /\ result.img.w >= 1
       /\ result.img.h >= 1

\* the labels of the last of the KMeansRounds assignments of a block
LastLabels(pixels) ==
    LET all == 1..Len(pixels)
        cs == KMeans(pixels,
                     CenterOf(pixels, {ArgMin([i \in all |-> Luminance(pixels[i])])}),
                     CenterOf(pixels, {ArgMax([i \in all |-> Luminance(pixels[i])])}),
                     KMeansRounds - 1)
    IN  [i \in all |-> Label(pixels[i], cs[1], cs[2])]

\* the per-channel mean of a block, truncated as .byte() does
BlockMean(pixels) ==
    LET m == CenterOf(pixels, 1..Len(pixels))
    IN  <<m.s[1] \div m.n, m.s[2] \div m.n, m.s[3] \div m.n>>

\* C18: a high-variance block whose clustering ends with a cluster that
\* owns no pixel gets the unsplit mean of the block as its output colour.
C18_EmptyClusterGivesMean ==
    (/\ pc = "done"
     /\ args.fn = "downsample_kmeans_adaptive"
     /\ args.torch_installed
     /\ result.raised = None)
    => \A i \in 1..(args.out_w * args.out_h) :
           LET pixels == BlockPixels(ToRGBA(args.img), args.pixel_size,
                                     (i - 1) % args.out_w, (i - 1) \div args.out_w)
           IN  (/\ HighVariance(pixels)
                /\ \E l \in {0, 1} : l \notin Range(LastLabels(pixels)))
               => <<result.img.px[i][1], result.img.px[i][2], result.img.px[i][3]>>
                      = BlockMean(pixels)

IsUniform(img) == \A i \in 1..Len(img.px) : img.px[i] = img.px[1]

\* what C7 asks of a finished direct call on a uniform image: the grid asked
\* for, every pixel the source colour, and no branch but the mean
UniformKept ==
    /\ result.raised = None
    /\ result.img = UniformImage(args.out_w, args.out_h, args.img.px[1])
    /\ result.branches = {"mean"}

shifts == << <<-1, 0>>, <<1, 0>>, <<0, -1>>, <<0, 1>>,
             <<-1, -1>>, <<-1, 1>>, <<1, -1>>, <<1, 1>> >>

\* np.roll(np.roll(pixels, dy, axis=0), dx, axis=1)[y, x]
Rolled(img, k, x, y) ==
    At(img, (x - shifts[k][2]) % img.w, (y - shifts[k][1]) % img.h)

\* the isolation test with the four diagonal shifts left out
IsolatedFourConnected(img, x, y) ==
    \A k \in 1..4 : Rolled(img, k, x, y) # At(img, x, y)

\* line 107-109: the pixel differs from all 8 rolled copies at its position
Isolated(img, x, y) ==
    \A k \in 1..8 : Rolled(img, k, x, y) # At(img, x, y)

AnyIsolated(img) ==
    \E x \in 0..(img.w - 1), y \in 0..(img.h - 1) : Isolated(img, x, y)

\* a pass that writes while it scans from the last row up: an isolated
\* pixel takes what its neighbour holds after the neighbour's own replacement
FilterPassInPlace(img) ==
    [img EXCEPT !.px = [i \in 1..Len(img.px) |->
        LET x == (i - 1) % img.w
            y == (i - 1) \div img.w
            below == (y + 1) % img.h
        IN  IF ~Isolated(img, x, y) THEN img.px[i]
            ELSE IF Isolated(img, x, below) THEN Rolled(img, 1, x, below)
            ELSE Rolled(img, 1, x, y)]]

\* line 115: every isolated pixel takes neighbor_stack[0] at its position;
\* the rolled copies are made before the assignment, so they hold the
\* image as it was before the pass
FilterPass(img) ==
    [img EXCEPT !.px = [i \in 1..Len(img.px) |->
        LET x == (i - 1) % img.w
            y == (i - 1) \div img.w
        IN  IF Isolated(img, x, y) THEN Rolled(img, 1, x, y) ELSE img.px[i]]]

RECURSIVE FilterLoop(_, _)
\* line 91-115: for _ in range(iterations), leaving at the first pass that
\* finds no isolated pixel
FilterLoop(img, n) ==
    IF n <= 0 \/ ~AnyIsolated(img) THEN img
    ELSE FilterLoop(FilterPass(img), n - 1)

\* the whole function: RGBA view in, RGB image out
apply_stability_filter(img, iterations) ==
    ToRGB(FilterLoop(ToRGBA(img), iterations))

(***************************************************************************)
(* Specification of the stability filter.                                  *)
(***************************************************************************)
\* two colours, one of them also with a second alpha, and their RGB forms
FilterPixels == {<<10, 10, 10, 255>>, <<200, 200, 200, 255>>, <<200, 200, 200, 0>>}

FilterArgs ==
    [img : ImagesUpTo(FilterPixels, MaxFilterPixels), iterations : 0..MaxIterations]

InitFilter ==
    /\ pc = "call"
    /\ args \in FilterArgs
    /\ result = <<>>

\* stability_filter(image, passes)
StabilityFilter ==
    /\ pc = "call"
    /\ result' = apply_stability_filter(args.img, args.iterations)
    /\ pc' = "done"
    /\ UNCHANGED args

\* the caller runs the filter again on what it returned, same pass count
FilterAgain ==
    /\ pc = "done"
    /\ args' = [args EXCEPT !.img = result]
    /\ result' = <<>>
    /\ pc' = "call"

NextFilter == StabilityFilter \/ FilterAgain

SpecFilter == InitFilter /\ [][NextFilter]_vars

\* every pixel has, among its 8 toroidally wrapped neighbours, one of its
\* own colour (all channels the image carries)
NoIsolatedPixel(img) ==
    \A x \in 0..(img.w - 1), y \in 0..(img.h - 1) :
        \E dx \in {-1, 0, 1}, dy \in {-1, 0, 1} :
            /\ <<dx, dy>> # <<0, 0>>
            /\ At(img, (x + dx) % img.w, (y + dy) % img.h) = At(img, x, y)

\* C9: the stability filter returns an image without isolated pixels with
\* every pixel's RGB unchanged, for every pass count; and when what it
\* returned has no isolated pixel, filtering that again with the same
\* pass count returns it unchanged.
C9_FilterFixedPoint ==
    pc = "done" =>
        /\ (NoIsolatedPixel(args.img) => result = ToRGB(args.img))
        /\ (NoIsolatedPixel(result) =>
                apply_stability_filter(result, args.iterations) = result)

\* C9 witness: the filter was run, with at least one pass, on an image it
\* had returned before, which has two colours on a 2-D grid and no
\* isolated pixel.
C9_Witness ==
    /\ pc = "done"
    /\ args.iterations >= 1
    /\ Len(args.img.px[1]) = 3
    /\ args.img.w >= 2 /\ args.img.h >= 2
    /\ Cardinality(Range(args.img.px)) >= 2
    /\ NoIsolatedPixel(args.img)

\* the pixel's colour (all four channels) is the colour of none of its 8
\* toroidally wrapped neighbours
Alone(img, x, y) ==
    \A dx \in {-1, 0, 1}, dy \in {-1, 0, 1} :
        <<dx, dy>> # <<0, 0>> =>
            At(img, (x + dx) % img.w, (y + dy) % img.h) # At(img, x, y)

AlonePixels(img) ==
    {p \in (0..(img.w - 1)) \X (0..(img.h - 1)) : Alone(img, p[1], p[2])}

\* C27: after one pass on any image (sides of 1 and 2 included) every
\* isolated pixel was isolated before the pass, and a pixel that was
\* isolated and whose vertical neighbour was not is isolated no more.
C27_PassMakesNoPixelIsolated ==
    (pc = "done" /\ args.iterations = 1) =>
        LET before == ToRGBA(args.img)
            after == ToRGBA(result)
        IN  /\ AlonePixels(after) \subseteq AlonePixels(before)
            /\ \A p \in AlonePixels(before) :
                   <<p[1], (p[2] + 1) % before.h>> \notin AlonePixels(before)
                       => p \notin AlonePixels(after)

\* C27 witness: a pass on an image with a side of 2 cured an isolated pixel
\* whose vertical neighbour was not isolated and left another one isolated
C27_Witness ==
    /\ pc = "done"
    /\ args.iterations = 1
    /\ args.img.w = 2
    /\ LET before == ToRGBA(args.img)
           after == ToRGBA(result)
       IN  /\ \E p \in AlonePixels(before) :
                  /\ <<p[1], (p[2] + 1) % before.h>> \notin AlonePixels(before)
                  /\ p \notin AlonePixels(after)
           /\ AlonePixels(after) # {}

(***************************************************************************)
(* The library steps of apply_palette_unified: Pillow's ImageEnhance,      *)
(* MedianFilter and quantize, OpenCV's bilateralFilter.                    *)
(***************************************************************************)
Clip8(v) == Max2(0, Min2(255, v))

\* C integer division, rounding toward zero
TruncDiv(a, b) == IF a >= 0 THEN a \div b ELSE 0 - ((0 - a) \div b)

\* Image.convert("L") of one pixel: the ITU-R 601-2 luma transform
Luma(p) == (19595 * p[1] + 38470 * p[2] + 7471 * p[3] + 32768) \div 65536

\* Image.blend(degenerate, image, factor) of one channel, the factor in
\* hundredths: d + factor * (c - d), clipped and truncated
Blend(d, c, factor) ==
    LET t == 100 * d + factor * (c - d)
    IN  IF t <= 0 THEN 0 ELSE IF t >= 25500 THEN 255 ELSE t \div 100

\* ImageEnhance.Color(img).enhance(1.2) (line 433-434): away from the gray image
EnhanceColor(img) ==
    [img EXCEPT !.px = [i \in 1..Len(img.px) |->
        LET p == img.px[i]
        IN  <<Blend(Luma(p), p[1], 120), Blend(Luma(p), p[2], 120),
              Blend(Luma(p), p[3], 120)>>]]

\* _apply_pre_contrast (line 535-541), ImageEnhance.Contrast(img).enhance(1.15):
\* away from the rounded mean luma of the image
_apply_pre_contrast(img) ==
    LET n == Len(img.px)
        mean == (2 * SumOver([i \in 1..n |-> Luma(img.px[i])], 1..n) + n) \div (2 * n)
    IN  [img EXCEPT !.px = [i \in 1..n |->
            <<Blend(mean, img.px[i][1], 115), Blend(mean, img.px[i][2], 115),
              Blend(mean, img.px[i][3], 115)>>]]

\* the 3 x 3 window around (x, y), the border pixels repeated outwards
Window(img, x, y) ==
    [n \in 1..9 |->
        At(img, Max2(0, Min2(img.w - 1, x + ((n - 1) % 3) - 1)),
                Max2(0, Min2(img.h - 1, y + ((n - 1) \div 3) - 1)))]

\* the middle one of nine values
MedianOf(vals) ==
    CHOOSE v \in Range(vals) :
        /\ Cardinality({i \in 1..9 : vals[i] < v}) <= 4
        /\ Cardinality({i \in 1..9 : vals[i] <= v}) >= 5

\* img.filter(ImageFilter.MedianFilter(size=3)) (line 135), band by band
MedianFilter(img) ==
    [img EXCEPT !.px = [i \in 1..Len(img.px) |->
        LET win == Window(img, (i - 1) % img.w, (i - 1) \div img.w)
            med(k) == MedianOf([n \in 1..9 |-> win[n][k]])
        IN  <<med(1), med(2), med(3)>>]]

\* cv2.bilateralFilter(img, 5, 25, 25) (line 130).  A neighbour's weight
\* falls with exp(-dist^2 / (2 * 25^2)) of its colour distance (the sum of
\* the channel differences): beyond FarApart it is below 10^-7 and the
\* neighbour does not move the rounded result.  Nearer neighbours are
\* averaged here with weight 1, which is exact for equal colours; the
\* images of the model hold no two different colours nearer than FarApart.
FarApart == 150

ColorDistance(p, q) == Abs(p[1] - q[1]) + Abs(p[2] - q[2]) + Abs(p[3] - q[3])

bilateralFilter(img) ==
    [img EXCEPT !.px = [i \in 1..Len(img.px) |->
        LET x == (i - 1) % img.w
            y == (i - 1) \div img.w
            near == {j \in 1..Len(img.px) :
                        /\ Abs(((j - 1) % img.w) - x) <= 2
                        /\ Abs(((j - 1) \div img.w) - y) <= 2
                        /\ ColorDistance(img.px[j], img.px[i]) < FarApart}
            n == Cardinality(near)
            mean(k) == (2 * SumOver([j \in near |-> img.px[j][k]], near) + n) \div (2 * n)
        IN  <<mean(1), mean(2), mean(3)>>]]

\* apply_bilateral_filter (line 121-135); cv2_installed: `import cv2` succeeds
apply_bilateral_filter(img, cv2_installed) ==
    IF cv2_installed THEN bilateralFilter(img) ELSE MedianFilter(img)

(***************************************************************************)
(* Palettes.  putpalette is given 768 values (line 410, 527-528), so the   *)
(* palette has 256 entries: the colours, then (0, 0, 0) in every slot left.*)
(***************************************************************************)
PaletteSize == 256

\* entry i (from 1) of the palette built from `colors`
PaletteEntry(colors, i) == IF i <= Len(colors) THEN colors[i] ELSE <<0, 0, 0>>

\* the entries a nearest-colour search has to look at: the slots after the
\* first padding slot repeat it, and the first of equal minima is taken
SearchRange(colors) == 1..Min2(PaletteSize, Len(colors) + 1)

\* the palette entry nearest to c in RGB (Pillow's palette lookup)
NearestRgb(c, colors) ==
    ArgMin([i \in SearchRange(colors) |-> SqDist(c, PaletteEntry(colors, i))])

\* line 425-426: the colour list handed to the LAB mapping, read back from
\* the padded palette (up to its first padding slot, see SearchRange)
PaletteColors(colors) == [i \in SearchRange(colors) |-> PaletteEntry(colors, i)]

\* line 70-72: the index of the entry of palette_colors nearest to c in LAB
NearestLab(c, palette_colors) ==
    ArgMin([k \in 1..Len(palette_colors) |-> LabSqDist(c, palette_colors[k])])

\* chunk_size = 100000 (line 62)
ChunkSize == 100000

RECURSIVE LabChunksWhole(_, _, _, _, _)
\* a loop over the whole chunks only: pixels behind the last whole chunk
\* keep the index they were initialised with
LabChunksWhole(pixels, palette_colors, chunk_size, i, indices) ==
    IF i + chunk_size > Len(pixels) THEN indices
    ELSE LabChunksWhole(pixels, palette_colors, chunk_size, i + chunk_size,
            [j \in 1..Len(pixels) |->
                IF j > i /\ j <= i + chunk_size
                THEN NearestLab(pixels[j], palette_colors) ELSE indices[j]])

RECURSIVE LabChunks(_, _, _, _, _)
\* line 65-72: for i in range(0, n, chunk_size), indices[i:end] = argmin;
\* i counts the pixels before the chunk, indices are from 1
LabChunks(pixels, palette_colors, chunk_size, i, indices) ==
    IF i >= Len(pixels) THEN indices
    ELSE LET end == Min2(i + chunk_size, Len(pixels))
         IN  LabChunks(pixels, palette_colors, chunk_size, i + chunk_size,
                [j \in 1..Len(pixels) |->
                    IF j > i /\ j <= end
                    THEN NearestLab(pixels[j], palette_colors) ELSE indices[j]])

\* line 45-76 for a given chunk size; np.zeros starts every index at the
\* first entry
MapToPaletteLab(img, palette_colors, chunk_size) ==
    LET rgb == ToRGB(img)
        indices == LabChunks(rgb.px, palette_colors, chunk_size, 0,
                             [j \in 1..Len(rgb.px) |-> 1])
    IN  [rgb EXCEPT !.px = [j \in 1..Len(rgb.px) |-> palette_colors[indices[j]]]]

\* map_to_palette_lab (line 45-76)
map_to_palette_lab(img, palette_colors) == MapToPaletteLab(img, palette_colors, ChunkSize)

RECURSIVE Dither(_, _, _, _, _)
\* Floyd-Steinberg error diffusion in scan order: pixel i plus the error it
\* was handed (in sixteenths) goes to the nearest entry, and the difference
\* is handed on, 7 to the right, 3, 5 and 1 to the row below
Dither(img, colors, i, err, out) ==
    IF i > Len(img.px) THEN out
    ELSE LET x == (i - 1) % img.w
             y == (i - 1) \div img.w
             v == <<Clip8(img.px[i][1] + TruncDiv(err[i][1], 16)),
                    Clip8(img.px[i][2] + TruncDiv(err[i][2], 16)),
                    Clip8(img.px[i][3] + TruncDiv(err[i][3], 16))>>
             c == PaletteEntry(colors, NearestRgb(v, colors))
             below == y + 1 < img.h
             share(j) ==
                 (IF j = i + 1 /\ x + 1 < img.w THEN 7 ELSE 0)
                 + (IF below /\ j = i + img.w - 1 /\ x > 0 THEN 3 ELSE 0)
                 + (IF below /\ j = i + img.w THEN 5 ELSE 0)
                 + (IF below /\ j = i + img.w + 1 /\ x + 1 < img.w THEN 1 ELSE 0)
         IN  Dither(img, colors, i + 1,
                    [j \in DOMAIN err |->
                        <<err[j][1] + share(j) * (v[1] - c[1]),
                          err[j][2] + share(j) * (v[2] - c[2]),
                          err[j][3] + share(j) * (v[3] - c[3])>>],
                    Append(out, c))

\* img.quantize(palette=target_palette, dither=...).convert("RGB")
Quantize(img, colors, dither) ==
    IF dither
    THEN [img EXCEPT !.px =
            Dither(img, colors, 1, [j \in 1..Len(img.px) |-> <<0, 0, 0>>], <<>>)]
    ELSE [img EXCEPT !.px = [i \in 1..Len(img.px) |->
            PaletteEntry(colors, NearestRgb(img.px[i], colors))]]

\* line 474-483
PresetNames == {"GameBoy", "CGA", "Pico-8"}

Preset(palette_name) ==
    CASE palette_name = "GameBoy" ->
            << <<15, 56, 15>>, <<48, 98, 48>>, <<139, 172, 15>>, <<155, 188, 15>> >>
      [] palette_name = "CGA" ->
            << <<0, 0, 0>>, <<85, 255, 255>>, <<255, 85, 255>>, <<255, 255, 255>> >>
      [] palette_name = "Pico-8" ->
            << <<0, 0, 0>>, <<29, 43, 83>>, <<126, 37, 83>>, <<0, 135, 81>>,
               <<171, 82, 54>>, <<95, 87, 79>>, <<194, 195, 199>>, <<255, 241, 232>>,
               <<255, 0, 77>>, <<255, 163, 0>>, <<255, 236, 39>>, <<0, 228, 54>>,
               <<41, 173, 255>>, <<131, 118, 156>>, <<255, 119, 168>>, <<255, 204, 170>> >>

\* the least number of colours a palette is low on (line 413, 487, 495, 504)
LowColor == 4

\* the default and the least number of gray steps (line 499-500)
DefaultSteps == 4
MinSteps == 2

\* np.linspace(0, 255, steps, dtype=int) as gray colours (line 502-503)
GraySteps(steps) ==
    [i \in 1..steps |->
        LET v == ((i - 1) * 255) \div (steps - 1) IN <<v, v, v>>]

\* custom_colors is [type, int, list]: type is "NoneType", "int" or "list",
\* and the field of that type holds the value
NoTarget == [has_palette |-> FALSE, colors |-> <<>>, is_low_color |-> FALSE]

\* _generate_target_palette (line 464-533): whether a palette image is
\* returned, the colours it was built from, and is_low_color
_generate_target_palette(palette_name, custom_colors) ==
    LET steps == IF custom_colors.type = "int"
                 THEN Max2(MinSteps, custom_colors.int) ELSE DefaultSteps
        target(colors, low) ==
            IF colors = <<>> THEN NoTarget
            ELSE [has_palette |-> TRUE, colors |-> colors, is_low_color |-> low]
    IN  IF palette_name \in PresetNames
        THEN target(Preset(palette_name), Len(Preset(palette_name)) <= LowColor)
        ELSE IF palette_name = "Custom_User" /\ custom_colors.type = "list"
                /\ custom_colors.list # <<>>
        THEN target(custom_colors.list, Len(custom_colors.list) <= LowColor)
        ELSE IF palette_name = "Grayscale"
        THEN target(GraySteps(steps), steps <= LowColor)
        ELSE NoTarget

(***************************************************************************)
(* apply_palette_unified (palette.py 369-462).                             *)
(***************************************************************************)
\* img.split()[-1] of an RGBA image
AlphaOf(img) == [i \in 1..Len(img.px) |-> img.px[i][4]]

\* an alpha channel that is opaque everywhere
PutAlphaOpaque(rgb, alpha_mask) ==
    [rgb EXCEPT !.px = [i \in 1..Len(rgb.px) |->
        <<rgb.px[i][1], rgb.px[i][2], rgb.px[i][3], 255>>]]

\* result_rgb.putalpha(alpha_mask) (line 461)
PutAlpha(rgb, alpha_mask) ==
    [rgb EXCEPT !.px = [i \in 1..Len(rgb.px) |->
        <<rgb.px[i][1], rgb.px[i][2], rgb.px[i][3], alpha_mask[i]>>]]

\* a truncation to 16 steps that is not scaled back to 0..255
Truncate16Floor(img) ==
    [img EXCEPT !.px = [i \in 1..Len(img.px) |->
        <<(img.px[i][1] \div 16) * 16, (img.px[i][2] \div 16) * 16,
          (img.px[i][3] \div 16) * 16>>]]

\* line 449-451: (arr // 16) * 17 computed in int16, then astype(np.uint8),
\* which keeps the low 8 bits
Truncate16(img) ==
    [img EXCEPT !.px = [i \in 1..Len(img.px) |->
        <<((img.px[i][1] \div 16) * 17) % 256, ((img.px[i][2] \div 16) * 17) % 256,
          ((img.px[i][3] \div 16) * 17) % 256>>]]

\* line 421-459: which branch computes result_rgb
Branch(palette_name, has_palette) ==
    IF has_palette THEN "mapper"
    ELSE IF palette_name = "Custom_16bit" THEN "truncate"
    ELSE IF palette_name = "Grayscale" THEN "gray"
    ELSE "passthrough"

\* a single pass whatever the mode
PassesOnce(auto_optimal) == 1

\* passes of the stability filter (line 445)
Passes(auto_optimal) == IF auto_optimal THEN 3 ELSE 1

\* line 407-413: the palette of Limited mode, built from the extracted colours
LimitedPalette(colors) ==
    [has_palette |-> TRUE, colors |-> colors, is_low_color |-> Len(colors) <= LowColor]

\* line 392-415: the target palette of the mode
TargetOf(rgb_img, palette_name, custom_colors, extract_policy, w_sat, w_con, w_rar, auto_optimal) ==
    IF palette_name = "Limited"
    THEN LimitedPalette(LimitedColors(rgb_img,
            IF custom_colors.type = "int" THEN custom_colors.int ELSE DefaultCount,
            extract_policy, w_sat, w_con, w_rar, auto_optimal))
    ELSE _generate_target_palette(palette_name, custom_colors)

\* line 428-440: the mapping of the image onto the palette, and the steps
\* that made it
Mapped(rgb_img, colors, dither, perceptual) ==
    IF perceptual
    THEN IF ~dither
         THEN [img |-> map_to_palette_lab(rgb_img, PaletteColors(colors)), steps |-> {"lab"}]
         ELSE [img |-> Quantize(EnhanceColor(rgb_img), colors, TRUE),
               steps |-> {"boost", "quantize", "dither"}]
    ELSE [img |-> Quantize(rgb_img, colors, dither),
          steps |-> IF dither THEN {"quantize", "dither"} ELSE {"quantize"}]

\* line 443-446: the stability filter, when dithering is off; passes is the
\* number of iterations it was called with, 0 when it was not called
Stabilized(mapped, dither, auto_optimal) ==
    IF ~dither
    THEN [img |-> apply_stability_filter(mapped.img, Passes(auto_optimal)),
          steps |-> mapped.steps \cup {"stability"},
          passes |-> Passes(auto_optimal)]
    ELSE [img |-> mapped.img, steps |-> mapped.steps, passes |-> 0]

\* Image.convert("L"), kept as an image of three equal channels
ToGray(img) ==
    [img EXCEPT !.px = [i \in 1..Len(img.px) |->
        <<Luma(img.px[i]), Luma(img.px[i]), Luma(img.px[i])>>]]

\* line 454: the number of grays of the quantize(colors=...) call
GrayColors(custom_colors) ==
    IF custom_colors.type = "int" THEN Max2(MinSteps, custom_colors.int) ELSE PaletteSize

\* line 421-459: result_rgb, the steps that made it and the filter passes
ResultRgb(rgb_img, branch, colors, custom_colors, dither, perceptual, auto_optimal) ==
    CASE branch = "mapper" ->
            Stabilized(Mapped(rgb_img, colors, dither, perceptual), dither, auto_optimal)
      \* line 448-451: the dither flag is not read
      [] branch = "truncate" ->
            [img |-> Truncate16(rgb_img), steps |-> {"truncate"}, passes |-> 0]
      \* line 453-456: quantize(colors=num_colors) of the "L" image
      [] branch = "gray" ->
            [img |-> Quantize(ToGray(rgb_img), GraySteps(GrayColors(custom_colors)), dither),
             steps |-> IF dither THEN {"gray", "dither"} ELSE {"gray"},
             passes |-> 0]
      [] OTHER -> [img |-> rgb_img, steps |-> {"passthrough"}, passes |-> 0]

\* line 461-462: the alpha mask put back, and what is returned
Returned(alpha_mask, res, target, before) ==
    [raised |-> None,
     img |-> PutAlpha(res.img, alpha_mask),
     has_palette |-> target.has_palette,
     colors |-> target.colors,
     steps |-> before \cup res.steps,
     passes |-> res.passes]

\* the value of a call that raised
Raised(exception) ==
    [raised |-> exception, img |-> NoImage, has_palette |-> FALSE, colors |-> <<>>,
     steps |-> {}, passes |-> 0]

\* line 417-462, the target palette known.  putpalette (line 412, 531)
\* raises ValueError("invalid palette size") for more than 256 colours.
WithTarget(alpha_mask, rgb_img, target, palette_name, custom_colors, dither, perceptual, auto_optimal) ==
    IF target.has_palette /\ Len(target.colors) > PaletteSize
    THEN Raised("ValueError")
    ELSE Returned(alpha_mask,
            ResultRgb(IF dither /\ target.is_low_color THEN _apply_pre_contrast(rgb_img)
                      ELSE rgb_img,
                      Branch(palette_name, target.has_palette), target.colors,
                      custom_colors, dither, perceptual, auto_optimal),
            target,
            (IF auto_optimal THEN {"bilateral"} ELSE {})
                \cup (IF dither /\ target.is_low_color THEN {"pre_contrast"} ELSE {}))

\* line 382-462, after the pre-smoothing
WithImage(alpha_mask, rgb_img, palette_name, custom_colors, dither, extract_policy, mapping_policy, w_sat, w_con, w_rar, auto_optimal) ==
    WithTarget(alpha_mask, rgb_img,
               TargetOf(rgb_img, palette_name, custom_colors, extract_policy,
                        w_sat, w_con, w_rar, auto_optimal),
               palette_name, custom_colors, dither,
               auto_optimal \/ mapping_policy = "Perceptual", auto_optimal)

\* line 382-386: the RGB image, smoothed in auto-optimal mode
Smoothed(rgba, auto_optimal, cv2_installed) ==
    IF auto_optimal THEN apply_bilateral_filter(ToRGB(rgba), cv2_installed)
    ELSE ToRGB(rgba)

\* The value is [raised, img, has_palette, colors, steps, passes]: the
\* exception raised (None when the call returned), the image returned,
\* whether a target palette was built and from which colours, the steps
\* that ran and the passes the stability filter was called with.
apply_palette_unified(img, palette_name, custom_colors, dither, extract_policy, mapping_policy, w_sat, w_con, w_rar, auto_optimal, cv2_installed) ==
    IF palette_name = "Original"
    THEN [raised |-> None, img |-> ToRGBA(img), has_palette |-> FALSE, colors |-> <<>>,
          steps |-> {"return"}, passes |-> 0]
    \* line 491, 495: len() of an int
    ELSE IF palette_name = "Custom_User" /\ custom_colors.type = "int"
            /\ custom_colors.int # 0
    THEN Raised("TypeError")
    ELSE WithImage(AlphaOf(ToRGBA(img)),
                   Smoothed(ToRGBA(img), auto_optimal, cv2_installed),
                   palette_name, custom_colors, dither, extract_policy, mapping_policy,
                   w_sat, w_con, w_rar, auto_optimal)

(***************************************************************************)
(* Specification of quantization: one call of apply_palette_unified on an  *)
(* RGBA image, as the pipeline hands it over.                              *)
(***************************************************************************)
\* a dark gray, a light gray and a half transparent red, pairwise far apart
QuantPixels == {<<10, 10, 10, 255>>, <<200, 200, 200, 255>>, <<255, 0, 0, 128>>}

NoColors == [type |-> "NoneType", int |-> 0, list |-> <<>>]
IntColors(n) == [type |-> "int", int |-> n, list |-> <<>>]
ListColors(l) == [type |-> "list", int |-> 0, list |-> l]

\* "Sepia" is a name the function does not know
PaletteNames ==
    {"Original", "Limited", "Custom_User", "Custom_16bit", "Grayscale", "Sepia"}
        \cup PresetNames

\* the custom_colors a caller passes with the palette
CustomColorsFor(palette_name) ==
    CASE palette_name = "Limited" -> {NoColors, IntColors(2)}
      [] palette_name = "Grayscale" -> {NoColors, IntColors(1), IntColors(3)}
      [] palette_name = "Custom_User" ->
            {NoColors, ListColors(<<>>),
             ListColors(<< <<200, 200, 200>>, <<255, 0, 0>> >>),
             ListColors(<< <<0, 0, 0>>, <<255, 255, 255>> >>)}
      [] OTHER -> {NoColors}

\* the fields a mode other than Original does not read are left at their
\* defaults
ReadsItsFields(c) ==
    c.palette_name # "Original" =>
        /\ ~c.auto_optimal => c.cv2_installed
        /\ (c.palette_name # "Limited" \/ c.auto_optimal) => c.extract_policy = "Standard"
        /\ c.weights = <<4, 3, 3>>
        /\ (c.auto_optimal \/ c.palette_name \in {"Custom_16bit", "Sepia"})
                => c.mapping_policy = "Classic"

QuantConfigs ==
    UNION {{c \in [palette_name : {n},
                   custom_colors : CustomColorsFor(n),
                   dither : BOOLEAN,
                   extract_policy : {"Standard", "Aesthetic"},
                   mapping_policy : {"Classic", "Perceptual"},
                   weights : {<<4, 3, 3>>, <<0, 0, 10>>},
                   auto_optimal : BOOLEAN,
                   cv2_installed : BOOLEAN] : ReadsItsFields(c)} : n \in PaletteNames}

QuantArgs ==
    {[img |-> i, palette_name |-> c.palette_name, custom_colors |-> c.custom_colors,
      dither |-> c.dither, extract_policy |-> c.extract_policy,
      mapping_policy |-> c.mapping_policy, weights |-> c.weights,
      auto_optimal |-> c.auto_optimal, cv2_installed |-> c.cv2_installed] :
        i \in ImagesUpTo(QuantPixels, MaxQuantPixels), c \in QuantConfigs}

InitQuant ==
    /\ pc = "call"
    /\ args \in QuantArgs
    /\ result = <<>>

ApplyPaletteUnified ==
    /\ pc = "call"
    /\ result' = apply_palette_unified(args.img, args.palette_name, args.custom_colors,
                    args.dither, args.extract_policy, args.mapping_policy,
                    args.weights[1], args.weights[2], args.weights[3],
                    args.auto_optimal, args.cv2_installed)
    /\ pc' = "done"
    /\ UNCHANGED args

NextQuant == ApplyPaletteUnified

SpecQuant == InitQuant /\ [][NextQuant]_vars

\* the RGB channels of every pixel of an image
RgbOf(img) == ToRGB(img).px

\* the call of the current state on another image
Applied(img) ==
    apply_palette_unified(img, args.palette_name, args.custom_colors, args.dither,
        args.extract_policy, args.mapping_policy, args.weights[1], args.weights[2],
        args.weights[3], args.auto_optimal, args.cv2_installed)

\* C1: in every palette-mapped mode (a preset, Custom_User, Limited) with
\* dithering off, under Classic and under Perceptual mapping, every output
\* pixel's RGB is one of the colours the palette was built from; the black
\* that fills the remaining slots is never matched.
C1_OnlyMeaningfulColours ==
    (/\ pc = "done"
     /\ args.palette_name \in PresetNames \cup {"Custom_User", "Limited"}
     /\ result.has_palette
     /\ ~args.dither)
    => \A i \in 1..Len(result.img.px) :
            <<result.img.px[i][1], result.img.px[i][2], result.img.px[i][3]>>
                \in Range(result.colors)

\* C2: with palette_name "Original" the call returns the input, RGB and
\* alpha pixel for pixel, whatever the other arguments are.
C2_OriginalIsIdentity ==
    (pc = "done" /\ args.palette_name = "Original")
    => /\ result.raised = None
       /\ result.img = args.img

\* Original returned a partly transparent image with every other argument
\* away from its default
C2_Witness ==
    /\ pc = "done"
    /\ args.palette_name = "Original"
    /\ args.dither /\ args.auto_optimal /\ ~args.cv2_installed
    /\ args.extract_policy = "Aesthetic" /\ args.mapping_policy = "Perceptual"
    /\ \E i \in 1..Len(args.img.px) : args.img.px[i][4] = 128
    /\ result.img = args.img

\* the image with the alpha of every pixel set to a
WithAlpha(img, a) ==
    [img EXCEPT !.px = [i \in 1..Len(img.px) |->
        <<img.px[i][1], img.px[i][2], img.px[i][3], a>>]]

\* C10: for every palette name and configuration the output has the width
\* and height of the input and the input's alpha pixel for pixel, and the
\* RGB output is the same for an input that differs in alpha only.
C10_AlphaUntouched ==
    pc = "done"
    => /\ result.raised = None
       /\ result.img.w = args.img.w
       /\ result.img.h = args.img.h
       /\ Len(result.img.px) = Len(args.img.px)
       /\ AlphaOf(result.img) = AlphaOf(args.img)
       \* two inputs that differ in alpha only have the same transparent twin
       /\ RgbOf(Applied(WithAlpha(args.img, 0)).img) = RgbOf(result.img)

\* a palette mapping changed the colours of a partly transparent image
C10_Witness ==
    /\ pc = "done"
    /\ args.palette_name = "GameBoy"
    /\ \E i \in 1..Len(args.img.px) : args.img.px[i][4] = 128
    /\ \E i \in 1..Len(args.img.px) : args.img.px[i][4] = 255
    /\ RgbOf(result.img) # RgbOf(args.img)
    /\ AlphaOf(result.img) = AlphaOf(args.img)

(***************************************************************************)
(* Specification of quantization under configurations off the usual path:  *)
(* policy and palette names the function does not know, colour lists as    *)
(* long as a palette and longer, counts above the size of a palette.       *)
(***************************************************************************)
\* n different colours
ColorList(n) == [i \in 1..n |-> <<i % 256, (i * 7) % 256, i \div 256>>]

ConfigNames == {"GameBoy", "Limited", "Custom_User", "Sepia"}

\* "Vivid" is a policy the function does not know
ExtractPolicies == {"Standard", "Aesthetic", "Vivid"}
MappingPolicies == {"Classic", "Perceptual", "Vivid"}

ConfigColorsFor(palette_name) ==
    CASE palette_name = "Limited" -> {IntColors(2), IntColors(PaletteSize + 44)}
      [] palette_name = "Custom_User" ->
            {ListColors(ColorList(2)), ListColors(ColorList(PaletteSize - 1)),
             ListColors(ColorList(PaletteSize)), ListColors(ColorList(PaletteSize + 1))}
      [] OTHER -> {NoColors}

ConfigConfigs ==
    UNION {{c \in [palette_name : {n},
                   custom_colors : ConfigColorsFor(n),
                   dither : BOOLEAN,
                   extract_policy : ExtractPolicies,
                   mapping_policy : MappingPolicies,
                   weights : {<<4, 3, 3>>},
                   auto_optimal : {FALSE},
                   cv2_installed : {TRUE}] :
                /\ n # "Limited" => c.extract_policy = "Standard"
                /\ n \in {"Limited", "Sepia"} => c.mapping_policy = "Classic"} :
           n \in ConfigNames}

ConfigArgs ==
    {[img |-> i, palette_name |-> c.palette_name, custom_colors |-> c.custom_colors,
      dither |-> c.dither, extract_policy |-> c.extract_policy,
      mapping_policy |-> c.mapping_policy, weights |-> c.weights,
      auto_optimal |-> c.auto_optimal, cv2_installed |-> c.cv2_installed] :
        i \in ImagesUpTo(QuantPixels, MaxConfigPixels), c \in ConfigConfigs}

InitConfig ==
    /\ pc = "call"
    /\ args \in ConfigArgs
    /\ result = <<>>

SpecConfig == InitConfig /\ [][NextQuant]_vars

\* the names and policies apply_palette_unified reads (line 379-459, 474-511)
KnownPalettes ==
    PresetNames \cup {"Original", "Limited", "Custom_User", "Custom_16bit", "Grayscale"}
KnownExtractPolicies == {"Standard", "Aesthetic"}
KnownMappingPolicies == {"Classic", "Perceptual"}

\* C11: a call with a palette_name, extract_policy or mapping_policy that is
\* not one of the recognised values reports an error to the caller; it does
\* not return an image.
C11_UnknownNameIsAnError ==
    (/\ pc = "done"
     /\ \/ args.palette_name \notin KnownPalettes
        \/ args.extract_policy \notin KnownExtractPolicies
        \/ args.mapping_policy \notin KnownMappingPolicies)
    => result.raised # None

\* C15: in Limited mode with any count and in Custom_User mode with a list
\* of any length, the palette installed has at most 256 colours, the call
\* does not fail and no colour of the list is dropped.
C15_PaletteFits ==
    (pc = "done" /\ args.palette_name \in {"Limited", "Custom_User"})
    => /\ result.raised = None
       /\ Len(result.colors) <= PaletteSize
       /\ args.custom_colors.type = "list" => result.colors = args.custom_colors.list

\* C12: the stability filter runs exactly when a target palette is mapped
\* and dithering is off, with 3 passes in auto-optimal mode and 1 pass
\* otherwise; with dithering on it runs on no path.
C12_FilterWhenMappedUndithered ==
    pc = "done"
    => /\ result.passes =
            IF result.has_palette /\ ~args.dither
            THEN (IF args.auto_optimal THEN 3 ELSE 1)
            ELSE 0
       /\ "stability" \in result.steps <=> result.passes > 0
       /\ args.dither => "stability" \notin result.steps

\* an undithered auto-optimal mapping of a 2 x 2 image ran the filter with
\* 3 passes
C12_Witness ==
    /\ pc = "done"
    /\ args.auto_optimal /\ ~args.dither
    /\ args.palette_name = "GameBoy"
    /\ args.img.w = 2 /\ args.img.h = 2
    /\ result.has_palette
    /\ result.passes = 3

\* C13: for Custom_16bit and for Grayscale no target palette is built and
\* neither the palette mapping nor the stability filter runs; Custom_16bit
\* is the channel truncation, Grayscale the luminance conversion followed
\* by the N-level quantization.
C13_SpecialModesBypassMapper ==
    (pc = "done" /\ args.palette_name \in {"Custom_16bit", "Grayscale"})
    => /\ ~result.has_palette
       /\ result.steps \cap {"lab", "quantize", "stability"} = {}
       /\ result.passes = 0
       /\ args.palette_name = "Custom_16bit" => "truncate" \in result.steps
       /\ args.palette_name = "Grayscale" => "gray" \in result.steps

\* C14: for Custom_16bit and for Grayscale the reduction is dithered when
\* dither is true and not when it is false.
C14_SpecialModesDither ==
    (pc = "done" /\ args.palette_name \in {"Custom_16bit", "Grayscale"})
    => ("dither" \in result.steps <=> args.dither)

(***************************************************************************)
(* core/project_manager.py: a project file with an integrity signature.    *)
(* A dictionary is the sequence of its <<key, value>> items in insertion   *)
(* order; keys and values are records [type, int, str], a str being the    *)
(* sequence of its code points.  A JSON document is the sequence of its    *)
(* <<key text, value token>> members.                                      *)
(***************************************************************************)
IntOf(n) == [type |-> "int", int |-> n, str |-> <<>>]

StrOf(text) == [type |-> "str", int |-> 0, str |-> text]

RECURSIVE Digits(_)
\* str(n) of a non-negative int: its decimal digits as code points
Digits(n) == IF n < 10 THEN <<48 + n>> ELSE Append(Digits(n \div 10), 48 + (n % 10))

RECURSIVE ParseInt(_)
\* int(text) of a sequence of decimal digits
ParseInt(text) ==
    IF Len(text) = 1 THEN text[1] - 48
    ELSE 10 * ParseInt(SubSeq(text, 1, Len(text) - 1)) + (text[Len(text)] - 48)

\* str < str of Python: by code point, a proper prefix first
StrLess(a, b) ==
    \E k \in 1..(Min2(Len(a), Len(b)) + 1) :
        /\ \A i \in 1..(k - 1) : a[i] = b[i]
        /\ \/ k > Len(a) /\ k <= Len(b)
           \/ k <= Len(a) /\ k <= Len(b) /\ a[k] < b[k]

\* a dictionary key written as a JSON member name: an int key becomes str(key)
KeyText(key) == IF key.type = "int" THEN Digits(key.int) ELSE key.str

\* a value written as a JSON token
ValueToken(value) ==
    IF value.type = "int" THEN [type |-> "number", text |-> Digits(value.int)]
    ELSE [type |-> "string", text |-> value.str]

\* a JSON token read back
ValueOf(token) ==
    IF token.type = "number" THEN IntOf(ParseInt(token.text)) ELSE StrOf(token.text)

\* json.dumps / json.dump without sort_keys: the members in insertion order
Dumps(items) == [i \in 1..Len(items) |-> <<KeyText(items[i][1]), ValueToken(items[i][2])>>]

\* sorted(dct.items()) raises TypeError when an int key meets a str key
Unorderable(items) ==
    \E i, j \in 1..Len(items) : items[i][1].type # items[j][1].type

\* key < key for two keys of one type
KeyLess(a, b) == IF a.type = "int" THEN a.int < b.int ELSE StrLess(a.str, b.str)

\* sorted(dct.items()): the items ordered by their keys as the dictionary
\* holds them, before any key is written as text
SortedItems(items) ==
    [k \in 1..Len(items) |->
        items[CHOOSE i \in 1..Len(items) :
                  Cardinality({j \in 1..Len(items) : KeyLess(items[j][1], items[i][1])}) = k - 1]]

\* line 12: json.dumps(data, sort_keys=True)
DumpsSorted(items) == Dumps(SortedItems(items))

\* line 13: SHA-256 taken as collision free: a digest stands for its text
sha256(json_str) == [hexdigest |-> json_str]

\* line 7-13: items is the dictionary without its signature member
_calculate_hash(items) ==
    IF Unorderable(items) THEN [raised |-> "TypeError", digest |-> sha256(<<>>)]
    ELSE [raised |-> None, digest |-> sha256(DumpsSorted(items))]

NoFile == [written |-> FALSE, members |-> <<>>, signed |-> FALSE, signature |-> sha256(<<>>)]

NotLoaded == [none |-> TRUE, items |-> <<>>, signed |-> FALSE, signature |-> sha256(<<>>)]

\* line 16-31: the file written and the value returned; any exception is
\* caught and False returned, the file not opened
save_project(state) ==
    LET hash == _calculate_hash(state)
    IN  IF hash.raised # None
        THEN [returned |-> FALSE, file |-> NoFile]
        ELSE [returned |-> TRUE,
              file |-> [written |-> TRUE, members |-> Dumps(state),
                        signed |-> TRUE, signature |-> hash.digest]]

\* line 40: json.load gives every member a str key
Loads(members) == [i \in 1..Len(members) |-> <<StrOf(members[i][1]), ValueOf(members[i][2])>>]

\* line 34-56
load_project(file) ==
    IF ~file.written THEN NotLoaded
    ELSE LET items == Loads(file.members)
             loaded == [none |-> FALSE, items |-> items,
                        signed |-> file.signed, signature |-> file.signature]
         IN  IF ~file.signed THEN loaded
             ELSE IF _calculate_hash(items).raised # None THEN NotLoaded
             ELSE IF file.signature # _calculate_hash(items).digest THEN NotLoaded
             ELSE loaded

(***************************************************************************)
(* Specification of a save followed by a load, as verify_phase4.py does.   *)
(***************************************************************************)
\* items of a project state
MaxItems == 2

\* keys 1, 2, 10 as int and as str, and "p"
ProjectKeys ==
    {IntOf(1), IntOf(2), IntOf(10),
     StrOf(<<49>>), StrOf(<<50>>), StrOf(<<49, 48>>), StrOf(<<112>>)}

\* values 8 and "p"
ProjectValues == {IntOf(8), StrOf(<<112>>)}

\* dictionaries: no key twice
ProjectStates ==
    {items \in UNION {SeqsOfLen(ProjectKeys \X ProjectValues, n) : n \in 0..MaxItems} :
        \A i, j \in 1..Len(items) : i # j => items[i][1] # items[j][1]}

InitProject ==
    /\ pc = "call"
    /\ args \in [state : ProjectStates]
    /\ result = <<>>

\* verify_phase4.py line 21-25: a failed save ends the run
SaveProject ==
    /\ pc = "call"
    /\ LET saved == save_project(args.state)
       IN  /\ result' = [saved |-> saved.returned, file |-> saved.file, loaded |-> NotLoaded]
           /\ pc' = IF saved.returned THEN "saved" ELSE "done"
    /\ UNCHANGED args

\* verify_phase4.py line 28
LoadProject ==
    /\ pc = "saved"
    /\ result' = [result EXCEPT !.loaded = load_project(result.file)]
    /\ pc' = "done"
    /\ UNCHANGED args

NextProject == SaveProject \/ LoadProject

SpecProject == InitProject /\ [][NextProject]_vars

\* C17: save_project returns True, the following load_project returns a
\* dictionary and not None, and the dictionary has exactly the saved
\* members (same keys, same values) and the signature that was written.
C17_SaveLoadRoundTrip ==
    pc = "done" =>
        /\ result.saved
        /\ ~result.loaded.none
        /\ Range(result.loaded.items) = Range(args.state)
        /\ result.loaded.signed /\ result.loaded.signature = result.file.signature

(***************************************************************************)
(* Specification of a project file changed between save and load.  Who     *)
(* changes the file can alter, remove or add a member, and can leave the   *)
(* signature member as it is, remove it, or replace it by the digest that  *)
(* _calculate_hash gives for the changed members (the hash has no key).    *)
(***************************************************************************)
\* the member lists one change away from members
ChangedMembers(members) ==
    {[members EXCEPT ![i] = <<members[i][1], ValueToken(IntOf(9))>>] : i \in 1..Len(members)}
        \cup {SubSeq(members, 1, i - 1) \o SubSeq(members, i + 1, Len(members)) :
                i \in 1..Len(members)}
        \cup {Append(members, <<(<<113>>), ValueToken(IntOf(9))>>)}

\* the files that differ from file
Tampered(file) ==
    {f \in [written : {TRUE},
            members : ChangedMembers(file.members) \cup {file.members},
            signed : BOOLEAN,
            signature : {file.signature}
                \cup {_calculate_hash(Loads(m)).digest : m \in ChangedMembers(file.members)}] :
        /\ f # file
        \* a removed signature member has no value
        /\ ~f.signed => f.signature = file.signature}

TamperFile ==
    /\ pc = "saved"
    /\ \E f \in Tampered(result.file) : result' = [result EXCEPT !.file = f]
    /\ pc' = "tampered"
    /\ UNCHANGED args

LoadTampered ==
    /\ pc = "tampered"
    /\ result' = [result EXCEPT !.loaded = load_project(result.file)]
    /\ pc' = "done"
    /\ UNCHANGED args

NextTamper == SaveProject \/ LoadProject \/ TamperFile \/ LoadTampered

SpecTamper == InitProject /\ [][NextTamper]_vars

\* C26: load_project returns None for every project file that differs from
\* what save_project wrote (a member altered, removed or added, the
\* signature member included).
C26_TamperedFileRejected ==
    (pc = "done" /\ result.saved /\ result.file # save_project(args.state).file)
        => result.loaded.none

(***************************************************************************)
(* Pipeline invocations in threads: pixelate_image (processor.py 78-127)   *)
(* with its background removal remove_background_ai (222-251), followed by *)
(* apply_palette_unified.  pc, args.calls and result.local are per thread; *)
(* result.REMBG_SESSION is the module global of line 223.  A thread may be *)
(* preempted between any two of its steps.                                 *)
(***************************************************************************)
MaxThreads == 2

Threads == 1..MaxThreads

\* line 223: REMBG_SESSION = None; a session is numbered by its creation
NoSession == 0

\* rembg.remove(img, session): the cutout depends on the image alone, every
\* session holding the same u2net model; here the dark pixels are background
remove(img, session) ==
    [img EXCEPT !.px = [i \in 1..Len(img.px) |->
        IF Luminance(img.px[i]) < 128000
        THEN <<img.px[i][1], img.px[i][2], img.px[i][3], 0>>
        ELSE img.px[i]]]

\* the palette step of the pipeline: GameBoy, no dither, Classic mapping
PaletteStep(img) ==
    apply_palette_unified(img, "GameBoy", NoColors, FALSE, "Standard", "Classic",
                          4, 3, 3, FALSE, TRUE).img

\* what one invocation returns when no other runs
RunAlone(call, rembg_installed) ==
    LET opened == ToRGBA(call.img)
        cut == IF call.bg_mode = "AI Auto" /\ rembg_installed
               THEN remove(opened, 1) ELSE opened
    IN  PaletteStep(DownsampleStep(cut, call.pixel_size, "Standard", FALSE).img)

ThreadImages == ImagesOf({<<10, 10, 10, 255>>, <<200, 200, 200, 255>>}, 2, 1)

ThreadCalls == [img : ThreadImages, bg_mode : {"None", "AI Auto"}, pixel_size : {1}]

InitThreads ==
    /\ pc = [t \in Threads |-> "call"]
    /\ args \in [calls : [Threads -> ThreadCalls], rembg_installed : BOOLEAN]
    /\ result = [REMBG_SESSION |-> NoSession,
                 initialised |-> 0,
                 writers |-> {},
                 local |-> [t \in Threads |-> [img |-> NoImage, session |-> NoSession]]]

\* line 82-99: the image is opened; "AI Auto" enters remove_background_ai,
\* whose import of rembg fails when it is not installed (line 232, 249-251:
\* the image is returned as it is)
Open(t) ==
    /\ pc[t] = "call"
    /\ result' = [result EXCEPT !.local[t].img = ToRGBA(args.calls[t].img)]
    /\ pc' = [pc EXCEPT ![t] =
                IF args.calls[t].bg_mode = "AI Auto" /\ args.rembg_installed
                THEN "check" ELSE "downsample"]
    /\ UNCHANGED args

\* line 236: if REMBG_SESSION is None
CheckSession(t) ==
    /\ pc[t] = "check"
    /\ pc' = [pc EXCEPT ![t] =
                IF result.REMBG_SESSION = NoSession THEN "new_session" ELSE "remove"]
    /\ UNCHANGED <<args, result>>

\* line 237-246: new_session(...) loads the model
NewSession(t) ==
    /\ pc[t] = "new_session"
    /\ result' = [result EXCEPT !.initialised = @ + 1,
                                !.local[t].session = result.initialised + 1]
    /\ pc' = [pc EXCEPT ![t] = "store"]
    /\ UNCHANGED args

\* line 246: REMBG_SESSION = <the new session>
StoreSession(t) ==
    /\ pc[t] = "store"
    /\ result' = [result EXCEPT !.REMBG_SESSION = result.local[t].session,
                                !.writers = @ \cup {t}]
    /\ pc' = [pc EXCEPT ![t] = "remove"]
    /\ UNCHANGED args

\* line 248: return remove(img, session=REMBG_SESSION)
Remove(t) ==
    /\ pc[t] = "remove"
    /\ result' = [result EXCEPT !.local[t].img =
                      remove(result.local[t].img, result.REMBG_SESSION)]
    /\ pc' = [pc EXCEPT ![t] = "downsample"]
    /\ UNCHANGED args

\* line 109-125
Downsample(t) ==
    /\ pc[t] = "downsample"
    /\ result' = [result EXCEPT !.local[t].img =
                      DownsampleStep(result.local[t].img, args.calls[t].pixel_size,
                                     "Standard", FALSE).img]
    /\ pc' = [pc EXCEPT ![t] = "palette"]
    /\ UNCHANGED args

\* palette.py 369-462
Palette(t) ==
    /\ pc[t] = "palette"
    /\ result' = [result EXCEPT !.local[t].img = PaletteStep(result.local[t].img)]
    /\ pc' = [pc EXCEPT ![t] = "done"]
    /\ UNCHANGED args

NextThreads ==
    \E t \in Threads :
        \/ Open(t)
        \/ CheckSession(t)
        \/ NewSession(t)
        \/ StoreSession(t)
        \/ Remove(t)
        \/ Downsample(t)
        \/ Palette(t)

SpecThreads == InitThreads /\ [][NextThreads]_vars

\* C16: when the invocations work on different images, under every
\* interleaving each finished invocation has returned what it returns when
\* run alone, REMBG_SESSION has been initialised at most once and at most
\* one invocation has written it.
C16_NoSharedMutableState ==
    (\A t, u \in Threads : t # u => args.calls[t].img # args.calls[u].img)
    => /\ \A t \in Threads :
              pc[t] = "done" =>
                  result.local[t].img = RunAlone(args.calls[t], args.rembg_installed)
       /\ result.initialised <= 1
       /\ Cardinality(result.writers) <= 1

(***************************************************************************)
(* Specification of the Custom_16bit mode over every 8-bit channel value.  *)
(***************************************************************************)
\* the largest value of a uint8 channel
MaxChannel == 255

\* 1 x 1 images whose three channels run over 0..MaxChannel
ChannelImages ==
    {[w |-> 1, h |-> 1, px |-> <<<<v, MaxChannel - v, (v + 100) % (MaxChannel + 1), 255>>>>] :
        v \in 0..MaxChannel}

TruncateArgs ==
    [img : ChannelImages,
     palette_name : {"Custom_16bit"},
     custom_colors : {NoColors},
     dither : BOOLEAN,
     extract_policy : {"Standard"},
     mapping_policy : {"Classic"},
     weights : {<<4, 3, 3>>},
     auto_optimal : {FALSE},
     cv2_installed : {TRUE}]

InitTruncate ==
    /\ pc = "call"
    /\ args \in TruncateArgs
    /\ result = <<>>

\* the mode is applied to its own output
ApplyAgain ==
    /\ pc = "done"
    /\ result.raised = None
    /\ args' = [args EXCEPT !.img = result.img]
    /\ result' = <<>>
    /\ pc' = "call"

NextTruncate == ApplyPaletteUnified \/ ApplyAgain

SpecTruncate == InitTruncate /\ [][NextTruncate]_vars

\* the 16 values 0, 17, ..., 255
Levels16 == {17 * j : j \in 0..15}

\* the channel value the mode gives for v, read off a 1 x 1 image
TruncatedChannel(v) == Truncate16([w |-> 1, h |-> 1, px |-> <<<<v, v, v>>>>]).px[1][1]

\* C25: in Custom_16bit mode every channel value v becomes (v div 16) * 17,
\* one of 0, 17, ..., 255; no smaller input value gets a larger output; and
\* the mode applied to its own output returns it unchanged.
C25_SixteenLevels ==
    (pc = "done" /\ args.palette_name = "Custom_16bit") =>
        /\ result.raised = None
        /\ \A k \in 1..3 :
               LET v == args.img.px[1][k]
                   r == result.img.px[1][k]
               IN  /\ r = (v \div 16) * 17
                   /\ r \in Levels16
                   /\ \A u \in 0..v : TruncatedChannel(u) <= r
        /\ result.img.px[1][4] = args.img.px[1][4]
        /\ Truncate16(ToRGB(result.img)) = ToRGB(result.img)

\* C25 witness: the mode ran on its own output, which has the channel 255
C25_Witness ==
    /\ pc = "done"
    /\ args.palette_name = "Custom_16bit"
    /\ args.img.px[1][1] = 255
    /\ args.img.px[1][2] = 0
    /\ result.img = args.img

\* C23: when a target palette is mapped, the saturation boost is applied
\* exactly under the Perceptual policy or in auto-optimal mode, with
\* dithering on and with dithering off, where the search is then in LAB.
C23_PerceptualBoosts ==
    (pc = "done" /\ result.raised = None /\ result.has_palette) =>
        LET perceptual == args.auto_optimal \/ args.mapping_policy = "Perceptual"
        IN  /\ "boost" \in result.steps <=> perceptual
            /\ (perceptual /\ ~args.dither) => "lab" \in result.steps

(***************************************************************************)
(* Specification of map_to_palette_lab, with the chunk size of line 62 and *)
(* with chunk sizes of the order of the images checked.                    *)
(***************************************************************************)
MaxChunk == 3

MaxLabPixels == 4

\* two greys, a red, and a palette that can hold an entry twice
LabPixels == {<<10, 10, 10>>, <<200, 200, 200>>, <<255, 0, 0>>}

LabPaletteColors == {<<0, 0, 0>>, <<255, 255, 255>>, <<250, 10, 10>>}

LabArgs ==
    [img : ImagesUpTo(LabPixels, MaxLabPixels),
     palette_colors : SeqsOfLen(LabPaletteColors, 1) \cup SeqsOfLen(LabPaletteColors, 2),
     chunk_size : (1..MaxChunk) \cup {ChunkSize}]

InitLab ==
    /\ pc = "call"
    /\ args \in LabArgs
    /\ result = <<>>

MapToPaletteLabCall ==
    /\ pc = "call"
    /\ result' = MapToPaletteLab(args.img, args.palette_colors, args.chunk_size)
    /\ pc' = "done"
    /\ UNCHANGED args

NextLab == MapToPaletteLabCall

SpecLab == InitLab /\ [][NextLab]_vars

\* C24: every pixel of the result is the palette entry at the least LAB
\* distance from the source pixel, the one of lowest index among equals,
\* whatever the chunk size is: below, equal to, a divisor of or no divisor
\* of the number of pixels.
C24_NearestInLabAnyChunking ==
    pc = "done" =>
        /\ result.w = args.img.w /\ result.h = args.img.h
        /\ \A j \in 1..Len(args.img.px) :
               \E k \in 1..Len(args.palette_colors) :
                   LET d(n) == LabSqDist(args.img.px[j], args.palette_colors[n])
                   IN  /\ result.px[j] = args.palette_colors[k]
                       /\ \A n \in 1..Len(args.palette_colors) : d(k) <= d(n)
                       /\ \A n \in 1..(k - 1) : d(n) > d(k)

\* C24 witness: 4 pixels were mapped in chunks of 3, a whole chunk and a
\* rest, onto a palette of two different entries, both of them used
C24_Witness ==
    /\ pc = "done"
    /\ Len(args.img.px) = 4
    /\ args.chunk_size = 3
    /\ Len(args.palette_colors) = 2
    /\ args.palette_colors[1] # args.palette_colors[2]
    /\ result.px[1] = args.palette_colors[2]
    /\ result.px[4] = args.palette_colors[2]
    /\ result.px[2] = args.palette_colors[1]

(***************************************************************************)
(* ui/app.py: PixelApp's processing requests, worker threads and           *)
(* per-image settings.  result is the PixelApp object, pc the worker       *)
(* threads started so far (their position and the arguments they closed    *)
(* over), args the user events still to come and the callbacks posted      *)
(* with self.after and not yet run.  Every handler runs on the UI thread   *)
(* and is one step; run() of a worker is another thread.  The fields       *)
(* last_request, requests and last_event of result are history kept for    *)
(* the properties; no handler reads them.                                  *)
(***************************************************************************)
MaxRequests == 3

MaxImages == 2

\* the inventory, filled before the first event; the last image may carry
\* embedded parameters (core/image_manager.py line 42, 61, 79)
InventoryIds == 1..MaxImages

\* the widgets read by capture_ui_state (line 586-600), two of them
UiStates == [pixel_size : {8, 16}, dither : BOOLEAN]

\* entry["params"] of an image: None, or a captured UI state
NoParams == [saved |-> FALSE, pixel_size |-> 0, dither |-> FALSE]

SavedParams(ui) == [saved |-> TRUE, pixel_size |-> ui.pixel_size, dither |-> ui.dither]

NoSource == <<"none", 0>>

\* the image files the user can open: a 4 x 4 image and a 1 x 700 image
PathIds == 1..2

\* the size of the image a source stands for; inventory images are 4 x 4
SizeOf(source) == IF source = <<"path", 2>> THEN <<1, 700>> ELSE <<4, 4>>

\* line 705, 460: preview_zoom = -1 asks display_image to fit the canvas
FitZoom == <<-1, 1>>

\* line 881-883: the canvas before it is laid out
CanvasSize == <<800, 600>>

\* line 886-887: min(cw / iw, ch / ih) * 0.9, as the fraction
\* <<numerator, denominator>>
ZoomToFit(size) == <<9 * Min2(CanvasSize[1] * size[2], CanvasSize[2] * size[1]), 10 * size[1] * size[2]>>

\* line 889: int(n * preview_zoom)
Scaled(n, zoom) == (n * zoom[1]) \div zoom[2]

\* line 879-896: preview_image, of the given size, is resized by the zoom;
\* Image.resize raises ValueError for a side of 0
display_image(app, size) ==
    LET zoom == IF app.preview_zoom = FitZoom THEN ZoomToFit(size) ELSE app.preview_zoom
    IN  [app |-> [app EXCEPT !.preview_zoom = zoom],
         raised |-> Scaled(size[1], zoom) < 1 \/ Scaled(size[2], zoom) < 1]

\* line 715-759 with the test of _is_processing left out
StartUnguarded(st, source_type, source_data) ==
    [app |-> [st.app EXCEPT !._is_processing = TRUE,
                            !.last_request = <<source_type, source_data>>,
                            !.requests = @ + 1],
     workers |-> Append(st.workers,
                    [at |-> "run", source |-> <<source_type, source_data>>,
                     params |-> st.app.ui, posts |-> 0])]

\* line 715-759, 823: a busy app notes the request; otherwise the
\* parameters are captured from the widgets and a thread is started
_start_threaded_process(st, source_type, source_data) ==
    IF st.app._is_processing
    THEN [st EXCEPT !.app._pending_reprocess = TRUE,
                    !.app._pending_source = <<source_type, source_data>>,
                    !.app.last_request = <<source_type, source_data>>,
                    !.app.requests = @ + 1]
    ELSE [app |-> [st.app EXCEPT !._is_processing = TRUE,
                                 !.last_request = <<source_type, source_data>>,
                                 !.requests = @ + 1],
          workers |-> Append(st.workers,
                         [at |-> "run", source |-> <<source_type, source_data>>,
                          params |-> st.app.ui, posts |-> 0])]

\* line 709-713
process_image(st) ==
    IF st.app.original_image_path = 0 THEN st
    ELSE _start_threaded_process(st, "path", st.app.original_image_path)

\* line 1098-1100; the image stands for its PIL image
process_inventory_image(st, image_id) == _start_threaded_process(st, "pil", image_id)

\* line 660-673
on_param_change(st) ==
    IF st.app.current_inventory_id # 0
    THEN LET id == st.app.current_inventory_id
             saved == IF st.app.setting_mode = "Individual"
                      THEN [st EXCEPT !.app.params[id] = SavedParams(st.app.ui)]
                      ELSE st
         IN  process_inventory_image(saved, id)
    ELSE process_image(st)

\* line 1091-1096: the definition of select_inventory_image that the class
\* ends up with; the one of line 675-694, earlier in the class body, is
\* replaced by it
select_inventory_image(st, image_id) ==
    process_inventory_image(
        [st EXCEPT !.app.current_inventory_id = image_id],
        image_id)

\* line 578-584
on_setting_mode_change(st, value) ==
    LET id == st.app.current_inventory_id
        set == [st EXCEPT !.app.setting_mode = value]
    IN  IF value = "Individual" /\ id # 0 /\ ~st.app.params[id].saved
        THEN [set EXCEPT !.app.params[id] = SavedParams(st.app.ui)]
        ELSE set

\* line 825-834 with display_image never raising
CompleteAlwaysDisplayed(st, w, processed) ==
    LET idle == [st EXCEPT !.app._is_processing = FALSE, !.workers[w].at = "done"]
        shown == display_image(idle.app, SizeOf(st.workers[w].source))
    IN  IF processed
        THEN [st |-> [idle EXCEPT !.app = [shown.app EXCEPT !.raw_pixel_image =
                                              [source |-> st.workers[w].source,
                                               params |-> st.workers[w].params]]],
              raised |-> FALSE]
        ELSE [st |-> idle, raised |-> FALSE]

\* line 825-834: the flag is cleared and a processed image is stored and
\* displayed; raised tells that display_image left the callback with an
\* exception
Complete(st, w, processed) ==
    LET idle == [st EXCEPT !.app._is_processing = FALSE, !.workers[w].at = "done"]
        shown == display_image(idle.app, SizeOf(st.workers[w].source))
    IN  IF processed
        THEN [st |-> [idle EXCEPT !.app = [shown.app EXCEPT !.raw_pixel_image =
                                              [source |-> st.workers[w].source,
                                               params |-> st.workers[w].params]]],
              raised |-> shown.raised]
        ELSE [st |-> idle, raised |-> FALSE]

\* line 825-859: the callback of worker w; processed is None for a failed
\* run.  The pending request is looked at only when the lines before it
\* did not raise
_on_processing_complete(st, w, processed) ==
    LET done == Complete(st, w, processed)
    IN  IF ~done.raised /\ done.st.app._pending_reprocess
        THEN _start_threaded_process(
                [done.st EXCEPT !.app._pending_reprocess = FALSE],
                done.st.app._pending_source[1], done.st.app._pending_source[2])
        ELSE done.st

(***************************************************************************)
(* Specification of the app: user events, worker runs and callbacks.       *)
(***************************************************************************)
InitApp ==
    /\ pc = <<>>
    /\ args = [requests_left |-> MaxRequests, queue |-> <<>>]
    /\ \E ui \in UiStates, embedded_params \in {NoParams, SavedParams([pixel_size |-> 16, dither |-> TRUE])} :
        result = [_is_processing |-> FALSE,
                  _pending_reprocess |-> FALSE,
                  _pending_source |-> NoSource,
                  current_inventory_id |-> 0,
                  original_image_path |-> 0,
                  preview_zoom |-> <<1, 1>>,
                  setting_mode |-> "Global",
                  ui |-> ui,
                  params |-> [id \in InventoryIds |-> IF id = MaxImages THEN embedded_params ELSE NoParams],
                  raw_pixel_image |-> [source |-> NoSource, params |-> ui],
                  last_request |-> NoSource,
                  requests |-> 0,
                  last_event |-> "none"]

\* the state the handlers work on
Now == [app |-> result, workers |-> pc]

\* a handler has run: one user event less
Handled(st, event) ==
    /\ result' = [st.app EXCEPT !.last_event = event]
    /\ pc' = st.workers
    /\ args' = [args EXCEPT !.requests_left = @ - 1]

\* the user moves a widget, whose command is on_param_change
ChangeParam ==
    /\ args.requests_left > 0
    /\ \E ui \in UiStates :
        /\ (ui.pixel_size # result.ui.pixel_size) # (ui.dither # result.ui.dither)
        /\ Handled(on_param_change([Now EXCEPT !.app.ui = ui]), "param_change")

\* a click on an inventory item (line 1072-1074)
SelectImage ==
    /\ args.requests_left > 0
    /\ \E id \in InventoryIds : Handled(select_inventory_image(Now, id), "select")

\* the Global / Individual switch (line 141)
SettingModeChange ==
    /\ args.requests_left > 0
    /\ \E value \in {"Global", "Individual"} : Handled(on_setting_mode_change(Now, value), "setting_mode")

\* line 696-707
OpenImage ==
    /\ args.requests_left > 0
    /\ \E file_path \in PathIds :
        Handled(process_image([Now EXCEPT !.app.original_image_path = file_path,
                                          !.app.preview_zoom = FitZoom]),
                "open")

\* line 443-491: a project whose source (the 4 x 4 image, saved at zoom 1)
\* exists or not, with or without a palette_mode member, whose restoring
\* calls on_param_change (line 466-468)
LoadProjectFile ==
    /\ args.requests_left > 0
    /\ \E state \in {[pixel_size |-> 8, dither |-> FALSE], [pixel_size |-> 16, dither |-> TRUE]},
          has_source \in BOOLEAN, has_palette_mode \in BOOLEAN :
        LET opened == [Now EXCEPT !.app.original_image_path = IF has_source THEN 1 ELSE @,
                                  !.app.preview_zoom = IF has_source THEN <<1, 1>> ELSE @,
                                  !.app.ui.pixel_size = state.pixel_size]
            palette == IF has_palette_mode THEN on_param_change(opened) ELSE opened
        IN  Handled(process_image([palette EXCEPT !.app.ui.dither = state.dither]), "load_project")

\* line 740-823: run() of worker w ends on one of its three paths, each of
\* which posts _on_processing_complete once
WorkerRun(w) ==
    /\ pc[w].at = "run"
    /\ \E outcome \in {"processed", "no_image", "exception"} :
        /\ outcome = "no_image" => pc[w].source[1] = "path"
        /\ args' = [args EXCEPT !.queue =
                        Append(@, [worker |-> w, processed |-> outcome = "processed"])]
    /\ pc' = [pc EXCEPT ![w].at = "posted", ![w].posts = @ + 1]
    /\ UNCHANGED result

\* the UI thread runs the oldest posted callback
OnProcessingComplete ==
    /\ args.queue # <<>>
    /\ LET st == _on_processing_complete(Now, Head(args.queue).worker,
                                         Head(args.queue).processed)
       IN  /\ result' = st.app
           /\ pc' = st.workers
    /\ args' = [args EXCEPT !.queue = Tail(@)]

NextApp ==
    \/ ChangeParam
    \/ SelectImage
    \/ SettingModeChange
    \/ OpenImage
    \/ LoadProjectFile
    \/ \E w \in 1..Len(pc) : WorkerRun(w)
    \/ OnProcessingComplete

SpecApp == InitApp /\ [][NextApp]_vars

\* the workers that were started and whose callback has not run
ActiveWorkers == {w \in 1..Len(pc) : pc[w].at \in {"run", "posted"}}

\* C28: at most one worker is active at any time, and _is_processing is
\* true exactly while a worker is active, from its start until its
\* callback has run.
C28_OneWorkerAtATime ==
    /\ Cardinality(ActiveWorkers) <= 1
    /\ result._is_processing <=> ActiveWorkers # {}

\* C28 witness: a second worker runs after the first one's callback, a
\* request having arrived while the first was running
C28_Witness ==
    /\ Len(pc) = 2
    /\ pc[1].at = "done"
    /\ pc[2].at = "run"
    /\ result.requests = 3
    /\ result._pending_reprocess

(***************************************************************************)
(* The app with its scheduling: a started thread runs to its end and the   *)
(* Tk main loop runs every callback posted with self.after.  The user may  *)
(* stop making requests at any moment.                                     *)
(***************************************************************************)
SpecAppFair ==
    /\ SpecApp
    /\ WF_vars(\E w \in 1..Len(pc) : WorkerRun(w))
    /\ WF_vars(OnProcessingComplete)

\* the newest run there is was made for the most recent request, and its
\* callback has run
LastRequestProcessed ==
    \/ result.last_request = NoSource
    \/ /\ Len(pc) > 0
       /\ pc[Len(pc)].source = result.last_request
       /\ pc[Len(pc)].at = "done"

\* C29: every run posts its completion callback exactly once, and once the
\* requests have stopped the app eventually is idle with no request
\* pending and the most recently requested source processed.
C29_PendingRequestNotLost ==
    /\ [](\A w \in 1..Len(pc) : pc[w].posts = IF pc[w].at = "run" THEN 0 ELSE 1)
    /\ (args.requests_left = 0) ~>
           (/\ ~result._is_processing
            /\ ~result._pending_reprocess
            /\ LastRequestProcessed)

\* the image selected in the inventory and its entry["params"]
CurrentParams == result.params[result.current_inventory_id]

\* C30: in Individual mode a selection of an image with saved parameters
\* leaves the UI showing them, a selection of an image without leaves the
\* UI state stored for it, and a parameter change alters the saved
\* parameters of the selected image only in the widget the user moved, so
\* that no setting chosen for another image is written over them.
C30_PerImageSettingsKept ==
    /\ [](result.last_event = "select" /\ result.setting_mode = "Individual"
            => CurrentParams = SavedParams(result.ui))
    /\ [][(/\ result'.last_event = "param_change"
           /\ args'.requests_left < args.requests_left
           /\ result.setting_mode = "Individual"
           /\ result.current_inventory_id # 0
           /\ CurrentParams.saved)
          => /\ result'.ui.pixel_size = result.ui.pixel_size
                  => result'.params[result.current_inventory_id].pixel_size = CurrentParams.pixel_size
             /\ result'.ui.dither = result.ui.dither
                  => result'.params[result.current_inventory_id].dither = CurrentParams.dither]_vars

====
